---- MODULE Spec2Model ----
(***************************************************************************)
(* The query execution pipeline of dbpia-mcp: the sliding-window rate      *)
(* limiter (infra/rateLimiter.ts), the FIFO write mutex (infra/mutex.ts),  *)
(* the query cache (db/queryCache.ts), the article upsert (db/articles.ts) *)
(* and the orchestrator runQuery (dbpia/runQuery.ts).                      *)
(*                                                                         *)
(* Time is one wall clock, `now`, in abstract ticks.  JavaScript runs one  *)
(* synchronous segment at a time: every action below is one such segment   *)
(* (a call up to its first suspension, a timer callback, a continuation).  *)
(***************************************************************************)
EXTENDS Integers, Sequences, FiniteSets, TLC

\* ------------------------------------------------------------------ bounds
NProcs == 4        \* concurrent callers (each calls once)
MaxTime == 6       \* the clock stops advancing here
MaxStep == 2       \* largest single advance of the clock
MaxQueryTime == 3  \* where the clock stops while runQuery calls are modelled

Procs == 1..NProcs
NoTimer == -1      \* timeout = null
NoEst == -1        \* acquire() returned before computing estimatedWait

\* The options createRateLimiter is called with, in ticks.
LimiterConfigs ==
    { [limit |-> 1, windowMs |-> 2, maxQueueDelayMs |-> 1],
      [limit |-> 1, windowMs |-> 2, maxQueueDelayMs |-> 4],
      [limit |-> 2, windowMs |-> 3, maxQueueDelayMs |-> 2],
      [limit |-> 2, windowMs |-> 2, maxQueueDelayMs |-> 5] }

VARIABLES
    now,            \* Date.now()
    cfg,            \* the limiter's options {limit, windowMs, maxQueueDelayMs}
    timestamps,     \* limiter: admitted-call timestamps, oldest first
    queue,          \* limiter: waiting callers, [p, ts], oldest first
    timeout,        \* limiter: due time of the pending drain timer, or NoTimer
    pc,             \* each caller's position
    est,            \* each caller's estimatedWait as acquire() computed it
    arrivals,       \* history: callers in the order they called acquire()
    admits,         \* history: admissions [p, at] in the order they happened
    locked,         \* mutex: this.locked
    mqueue,         \* mutex: this.queue, the waiting callers, oldest first
    log,            \* history: runQuery, mutex and storage events [kind, p], in order
    ttlDays,        \* parseInt(process.env.DBPIA_QUERY_TTL_DAYS, 10), or the default
    query_cache,    \* table query_cache: a set of rows, cache_key the primary key
    articles,       \* table articles: a set of rows, id the primary key
    call,           \* each runQuery call's options, locals and outcome
    lastDone,       \* history: the call that has just returned its result (0: none),
                    \* with no clock advance and no storage write since
    opts,           \* fetchDbpiaXml: {timeoutMs, maxRetries, retryBackoffMs} in effect
    attempt,        \* fetchDbpiaXml: the loop variable
    fetchPc,        \* fetchDbpiaXml: where the call stands
    elapsed,        \* time since the timer now awaited was set (it stops at the delay)
    timerDelay,     \* the delay of the timer now awaited
    lastError,      \* fetchDbpiaXml: lastError
    settled,        \* what fetchDbpiaXml returned or threw
    outcomes,       \* history: how each attempt ended, in order
    waits,          \* history: the time waited before each further attempt
    args,           \* the arguments of the calls of a pure function under study
    results,        \* what those calls returned (Undefined: not called yet)
    storeOp,        \* history: the storage function called last, with its arguments
    lastSet,        \* history: per cache_key, the record of the most recent setCachedQuery
    lastUpsert,     \* history: per id, the article of the most recent upsert
    schema,         \* the database schema: version rows, tables, columns of articles
    applied         \* history: how many times each migration's sql was executed

limVars == <<cfg, timestamps, queue, timeout>>
histVars == <<arrivals, admits>>
mtxVars == <<locked, mqueue>>
dbVars == <<query_cache, articles>>
pipeVars == <<ttlDays, query_cache, articles, call, lastDone>>
pureVars == <<args, results>>
storeVars == <<storeOp, lastSet, lastUpsert, schema, applied>>
fetchVars == <<opts, attempt, fetchPc, elapsed, timerDelay, lastError, settled, outcomes, waits>>
vars == <<now, cfg, timestamps, queue, timeout, pc, est, arrivals, admits,
          locked, mqueue, log, ttlDays, query_cache, articles, call, lastDone,
          opts, attempt, fetchPc, elapsed, timerDelay, lastError, settled, outcomes, waits,
          args, results, storeOp, lastSet, lastUpsert, schema, applied>>

\* JavaScript values: undefined, strings, numbers, arrays of strings
Undefined == [type |-> "undefined"]
Str(s) == [type |-> "string", value |-> s]
Num(n) == [type |-> "number", value |-> n]
Arr(a) == [type |-> "array", value |-> a]

\* the truthiness test of `if (v)` and `v || d`
Truthy(v) ==
    CASE v.type = "undefined" -> FALSE
      [] v.type = "string" -> v.value # ""
      [] v.type = "number" -> v.value # 0
      [] OTHER -> TRUE

\* String(v), and v inside a template literal
ToJsString(v) ==
    CASE v.type = "string" -> v.value
      [] v.type = "number" -> ToString(v.value)
      [] OTHER -> "undefined"

\* v || ''
OrEmpty(v) == IF Truthy(v) THEN ToJsString(v) ELSE ""

\* array.join(sep)
RECURSIVE Join(_, _)
Join(a, sep) ==
    IF a = <<>> THEN ""
    ELSE IF Len(a) = 1 THEN a[1]
    ELSE a[1] \o sep \o Join(Tail(a), sep)

Max(a, b) == IF a >= b THEN a ELSE b
Min(a, b) == IF a <= b THEN a ELSE b

\* ------------------------------------------------------------ rate limiter

Cleanup_OneTickEarly(ts) == SelectSeq(ts, LAMBDA t : t > now - cfg.windowMs + 1)
\* cleanup(): timestamps.filter(ts => ts > now - windowMs)
Cleanup(ts) == SelectSeq(ts, LAMBDA t : t > now - cfg.windowMs)

HasSlot_NoBound(ts) == Len(ts) <= cfg.limit
\* timestamps.length < limit
HasSlot(ts) == Len(ts) < cfg.limit

CanAdmitNow_IgnoreQueue(ts, q) == HasSlot(ts)
\* acquire(): timestamps.length < limit && queue.length === 0
CanAdmitNow(ts, q) == HasSlot(ts) /\ q = <<>>

\* acquire(): the wait estimated for a caller arriving behind q
EstimatedWait(ts, q) ==
    LET queueIndex == Len(q)
        atIndex == ts[(queueIndex % cfg.limit) + 1]
        \* timestamps[queueIndex % limit] || timestamps[0]
        referenceTs == IF atIndex # 0 THEN atIndex ELSE ts[1]
        base == IF Len(ts) >= cfg.limit
                  THEN Max(0, referenceTs + cfg.windowMs - now)
                  ELSE 0
        extraWindows == queueIndex \div cfg.limit
    IN  base + extraWindows * cfg.windowMs

Rejects_Never(e) == FALSE
\* acquire(): estimatedWait > maxQueueDelayMs
Rejects(e) == e > cfg.maxQueueDelayMs

\* processQueue(), lines 35-41: while (queue.length > 0 && timestamps.length < limit)
RECURSIVE Drain(_, _, _)
Drain(ts, q, adm) ==
    IF q # <<>> /\ HasSlot(ts)
      THEN Drain(Append(ts, now), Tail(q), Append(adm, [p |-> Head(q).p, at |-> now]))
      ELSE [timestamps |-> ts, queue |-> q, admitted |-> adm]

ProcessQueue_NoTimer(ts0, q0) ==
    LET d == Drain(Cleanup(ts0), q0, <<>>)
    IN  [ timestamps |-> d.timestamps, queue |-> d.queue, admitted |-> d.admitted,
          timeout |-> NoTimer ]
\* processQueue(): the limiter's state after the call, whom it admitted, and
\* the drain timer it leaves pending (any earlier one is cleared)
ProcessQueue(ts0, q0) ==
    LET d == Drain(Cleanup(ts0), q0, <<>>)
        oldestTimestamp == d.timestamps[1]
        nextAvailableAt == oldestTimestamp + cfg.windowMs
        delay == Max(0, nextAvailableAt - now)
    IN  [ timestamps |-> d.timestamps,
          queue |-> d.queue,
          admitted |-> d.admitted,
          timeout |-> IF d.queue # <<>> THEN now + delay ELSE NoTimer ]

AdmittedProcs(adm) == {adm[i].p : i \in 1..Len(adm)}

AcquireEffect_CountRejected(p) ==
    LET ts1 == Cleanup(timestamps) IN
    /\ arrivals' = Append(arrivals, p)
    /\ IF CanAdmitNow(ts1, queue)
         THEN /\ timestamps' = Append(ts1, now)
              /\ UNCHANGED <<queue, timeout, est>>
              /\ pc' = [pc EXCEPT ![p] = "lim_admitted"]
              /\ admits' = Append(admits, [p |-> p, at |-> now])
         ELSE LET e == EstimatedWait(ts1, queue) IN
              /\ est' = [est EXCEPT ![p] = e]
              /\ IF Rejects(e)
                   THEN /\ timestamps' = Append(ts1, now)
                        /\ UNCHANGED <<queue, timeout, admits>>
                        /\ pc' = [pc EXCEPT ![p] = "rejected"]
                   ELSE LET r == ProcessQueue(ts1, Append(queue, [p |-> p, ts |-> now])) IN
                        /\ timestamps' = r.timestamps
                        /\ queue' = r.queue
                        /\ timeout' = r.timeout
                        /\ admits' = admits \o r.admitted
                        /\ pc' = [q \in Procs |->
                                    IF q \in AdmittedProcs(r.admitted) THEN "lim_admitted"
                                    ELSE IF q = p THEN "lim_queued"
                                    ELSE pc[q]]
\* acquire() called by p: line 52 to the return, the throw or the new Promise
AcquireEffect(p) ==
    LET ts1 == Cleanup(timestamps) IN
    /\ arrivals' = Append(arrivals, p)
    /\ IF CanAdmitNow(ts1, queue)
         THEN /\ timestamps' = Append(ts1, now)
              /\ UNCHANGED <<queue, timeout, est>>
              /\ pc' = [pc EXCEPT ![p] = "lim_admitted"]
              /\ admits' = Append(admits, [p |-> p, at |-> now])
         ELSE LET e == EstimatedWait(ts1, queue) IN
              /\ est' = [est EXCEPT ![p] = e]
              /\ IF Rejects(e)
                   THEN /\ timestamps' = ts1
                        /\ UNCHANGED <<queue, timeout, admits>>
                        /\ pc' = [pc EXCEPT ![p] = "rejected"]
                   ELSE LET r == ProcessQueue(ts1, Append(queue, [p |-> p, ts |-> now])) IN
                        /\ timestamps' = r.timestamps
                        /\ queue' = r.queue
                        /\ timeout' = r.timeout
                        /\ admits' = admits \o r.admitted
                        /\ pc' = [q \in Procs |->
                                    IF q \in AdmittedProcs(r.admitted) THEN "lim_admitted"
                                    ELSE IF q = p THEN "lim_queued"
                                    ELSE pc[q]]

\* Callers are interchangeable: they are numbered in the order they call.
IsNextCaller(p) == pc[p] = "idle" /\ \A q \in Procs : q < p => pc[q] # "idle"

\* schedule(fn), first half: await this.acquire()
Schedule(p) ==
    /\ IsNextCaller(p)
    /\ AcquireEffect(p)
    /\ UNCHANGED <<now, cfg, mtxVars, log, pipeVars, fetchVars, pureVars, storeVars>>

\* schedule(fn), second half: return fn()
RunTask(p) ==
    /\ pc[p] = "lim_admitted"
    /\ pc' = [pc EXCEPT ![p] = "task_run"]
    /\ UNCHANGED <<now, limVars, est, histVars, mtxVars, log, pipeVars, fetchVars, pureVars, storeVars>>

\* the drain timer set by processQueue fires (at its due time or later)
TimerFire ==
    /\ timeout # NoTimer
    /\ now >= timeout
    /\ LET r == ProcessQueue(timestamps, queue) IN
       /\ timestamps' = r.timestamps
       /\ queue' = r.queue
       /\ timeout' = r.timeout
       /\ admits' = admits \o r.admitted
       /\ pc' = [q \in Procs |->
                   IF q \in AdmittedProcs(r.admitted) THEN "lim_admitted" ELSE pc[q]]
    /\ UNCHANGED <<now, cfg, est, arrivals, mtxVars, log, pipeVars, fetchVars, pureVars, storeVars>>

\* the wall clock advances (it stops at max)
ClockAdvances(max) ==
     \E d \in 1..MaxStep :
         /\ now + d <= max
         /\ now' = now + d

Tick ==
    /\ ClockAdvances(MaxTime)
    /\ lastDone' = 0
    /\ UNCHANGED <<limVars, pc, est, histVars, mtxVars, log, ttlDays, fetchVars, pureVars, storeVars, dbVars, call>>

\* ------------------------------------------------------------- db schema

\* db/index.ts: the migrations array; each migration's sql creates its tables
\* with CREATE TABLE IF NOT EXISTS
Migrations ==
    << [id |-> 1, name |-> "initial_schema", creates |-> {"articles", "query_cache"}],
       [id |-> 2, name |-> "session_and_pdf_metadata",
        creates |-> {"sessions", "external_pdfs"}] >>
MigrationIds == {Migrations[i].id : i \in 1..Len(Migrations)}

\* the columns migrate adds to articles when columnExists says they are missing
AddedColumns == {"fulltext", "pdf_path", "download_status", "downloaded_at"}

\* a database file openDb has just created: no table at all
FreshSchema == [versions |-> {}, tables |-> {}, columns |-> {}]
\* the database a release that had migration 1 only has left behind
LegacySchema ==
    [versions |-> {1}, tables |-> {"schema_version", "articles", "query_cache"},
     columns |-> {}]
\* the database after migrate
MigratedSchema ==
    [versions |-> MigrationIds,
     tables |-> {"schema_version", "articles", "query_cache", "sessions", "external_pdfs"},
     columns |-> AddedColumns]

\* history: a migration's sql has run once for each version row
AppliedIn(sch) == [m \in MigrationIds |-> IF m \in sch.versions THEN 1 ELSE 0]

\* SELECT MAX(version) as version FROM schema_version; versionRow?.version ?? 0
CurrentVersion(sch) ==
    IF sch.versions = {} THEN 0
    ELSE CHOOSE v \in sch.versions : \A w \in sch.versions : w <= v

ShouldApply_Always(migration, currentVersion) == TRUE
\* migrate, line 103: if (migration.id > currentVersion)
ShouldApply(migration, currentVersion) == migration.id > currentVersion

\* migrate, lines 102-107: the loop over migrations from index i on
RECURSIVE ApplyFrom(_, _, _)
ApplyFrom(sch, i, currentVersion) ==
    IF i > Len(Migrations) THEN sch
    ELSE LET m == Migrations[i] IN
         IF ShouldApply(m, currentVersion)
           THEN ApplyFrom([sch EXCEPT !.tables = @ \cup m.creates,
                                      !.versions = @ \cup {m.id}],
                          i + 1, currentVersion)
           ELSE ApplyFrom(sch, i + 1, currentVersion)

\* migrate: create schema_version, apply the migrations above the current
\* version, add the missing columns of articles
MigrateSchema(sch) ==
    LET withTable == [sch EXCEPT !.tables = @ \cup {"schema_version"}]
        migrated == ApplyFrom(withTable, 1, CurrentVersion(withTable))
    IN  [migrated EXCEPT !.columns = @ \cup AddedColumns]

\* history: the migrations whose sql one migrate call executes
ExecutedBy(sch) ==
    {Migrations[i].id : i \in {j \in 1..Len(Migrations) :
                                 ShouldApply(Migrations[j], CurrentVersion(sch))}}

NoOp == [op |-> "none"]

NoCall ==
    [ req |-> [kind |-> "none"], refresh |-> FALSE, cacheKey |-> <<>>,
      sawExpired |-> FALSE, hit |-> FALSE, hitStale |-> FALSE, after |-> 0,
      fetches |-> 0, fetchAt |-> 0, attempts |-> 0, resp |-> [kind |-> "none"],
      result |-> [kind |-> "none"], error |-> "" ]

\* fetchDbpiaXml, lines 37-42: the defaults of timeoutMs, maxRetries and
\* retryBackoffMs (10000, 2, 1000), a tick being 1000 ms
DefaultFetchOptions == [timeoutMs |-> 10, maxRetries |-> 2, retryBackoffMs |-> 1]
NoError == [name |-> "none", status |-> 0, statusTextHasMarker |-> FALSE]

\* nothing has been called yet
InitIdle ==
    /\ now = 1
    /\ opts = DefaultFetchOptions
    /\ attempt = 0
    /\ fetchPc = "idle"
    /\ elapsed = 0
    /\ timerDelay = 0
    /\ lastError = NoError
    /\ settled = [kind |-> "none"]
    /\ outcomes = <<>>
    /\ waits = <<>>
    /\ query_cache = {}
    /\ articles = {}
    /\ call = [p \in Procs |-> NoCall]
    /\ lastDone = 0
    /\ timestamps = <<>>
    /\ queue = <<>>
    /\ timeout = NoTimer
    /\ pc = [p \in Procs |-> "idle"]
    /\ est = [p \in Procs |-> NoEst]
    /\ arrivals = <<>>
    /\ admits = <<>>
    /\ locked = FALSE
    /\ mqueue = <<>>
    /\ log = <<>>
    /\ storeOp = NoOp
    /\ lastSet = {}
    /\ lastUpsert = {}

InitWith(configs) ==
    /\ InitIdle
    /\ schema = MigratedSchema
    /\ applied = AppliedIn(schema)
    /\ cfg \in configs
    /\ args = <<>>
    /\ results = <<>>

\* runQuery.ts:50: ttlDays is 7 when DBPIA_QUERY_TTL_DAYS is not set
DefaultTtl == [kind |-> "int", days |-> 7]

InitLimiter == InitWith(LimiterConfigs) /\ ttlDays = DefaultTtl

NextLimiter ==
    \/ \E p \in Procs : Schedule(p)
    \/ \E p \in Procs : RunTask(p)
    \/ TimerFire
    \/ Tick

SpecLimiter == InitLimiter /\ [][NextLimiter]_vars

TypeOKLimiter ==
    /\ now \in 1..MaxTime
    /\ cfg \in LimiterConfigs
    /\ pc \in [Procs -> {"idle", "lim_queued", "lim_admitted", "rejected", "task_run"}]
    /\ \A i \in 1..Len(queue) : pc[queue[i].p] = "lim_queued"

\* -------------------------------------------------------------- write mutex

Ev(kind, p) == [kind |-> kind, p |-> p]

Shift_DropWaiter(q) ==
    [next |-> Head(q), rest |-> IF Len(q) > 1 THEN Tail(Tail(q)) ELSE <<>>]
Shift_Lifo(q) == [next |-> q[Len(q)], rest |-> SubSeq(q, 1, Len(q) - 1)]
\* release(): const next = this.queue.shift()
Shift(q) == [next |-> Head(q), rest |-> Tail(q)]

LockedAfterRelease_Unlock(q) == FALSE
LockedAfterRelease_StaysLocked(q) == TRUE
\* release(): the lock stays held exactly when it is handed to a waiter
\* (this.locked = false only in the else branch)
LockedAfterRelease(q) == q # <<>>

MutexAcquireEffect_AlwaysGrant(p) ==
    /\ locked' = TRUE
    /\ mqueue' = mqueue
    /\ pc' = [pc EXCEPT ![p] = "mtx_granted"]
    /\ log' = Append(log, Ev("call", p))
\* acquire() called by p: take the free lock, or queue up
MutexAcquireEffect(p) ==
    IF ~locked
      THEN /\ locked' = TRUE
           /\ mqueue' = mqueue
           /\ pc' = [pc EXCEPT ![p] = "mtx_granted"]
           /\ log' = Append(log, Ev("call", p))
      ELSE /\ locked' = locked
           /\ mqueue' = Append(mqueue, p)
           /\ pc' = [pc EXCEPT ![p] = "mtx_wait"]
           /\ log' = Append(log, Ev("call", p))

MutexReleaseEffect_OnlyOnSuccess(p, pcAfter) ==
    IF pcAfter = "done"
      THEN /\ locked' = LockedAfterRelease(mqueue)
           /\ IF mqueue # <<>>
                THEN LET s == Shift(mqueue) IN
                     /\ mqueue' = s.rest
                     /\ pc' = [pc EXCEPT ![p] = pcAfter, ![s.next] = "mtx_granted"]
                     /\ log' = log \o <<Ev("release", p), Ev("handoff", s.next)>>
                ELSE /\ mqueue' = mqueue
                     /\ pc' = [pc EXCEPT ![p] = pcAfter]
                     /\ log' = Append(log, Ev("release", p))
      ELSE /\ locked' = locked
           /\ mqueue' = mqueue
           /\ pc' = [pc EXCEPT ![p] = pcAfter]
           /\ log' = log
\* release() called by p, and p's runExclusive settling with pcAfter
MutexReleaseEffect(p, pcAfter) ==
    /\ locked' = LockedAfterRelease(mqueue)
    /\ IF mqueue # <<>>
         THEN LET s == Shift(mqueue) IN
              /\ mqueue' = s.rest
              /\ pc' = [pc EXCEPT ![p] = pcAfter, ![s.next] = "mtx_granted"]
              /\ log' = log \o <<Ev("release", p), Ev("handoff", s.next)>>
         ELSE /\ mqueue' = mqueue
              /\ pc' = [pc EXCEPT ![p] = pcAfter]
              /\ log' = Append(log, Ev("release", p))

\* runExclusive(fn): const release = await this.acquire()
RunExclusive(p) ==
    /\ IsNextCaller(p)
    /\ MutexAcquireEffect(p)
    /\ UNCHANGED <<now, limVars, est, histVars, pipeVars, fetchVars, pureVars, storeVars>>

\* runExclusive(fn): the acquire promise's continuation calls fn(), whose body
\* runs to its first internal await
StartBody(p) ==
    /\ pc[p] = "mtx_granted"
    /\ pc' = [pc EXCEPT ![p] = "body"]
    /\ log' = Append(log, Ev("enter", p))
    /\ UNCHANGED <<now, limVars, est, histVars, mtxVars, pipeVars, fetchVars, pureVars, storeVars>>

\* fn()'s body resumes after its await and settles (fulfils or rejects)
FinishBody(p) ==
    /\ pc[p] = "body"
    /\ \E outcome \in {"settled_ok", "settled_err"} :
         pc' = [pc EXCEPT ![p] = outcome]
    /\ log' = Append(log, Ev("exit", p))
    /\ UNCHANGED <<now, limVars, est, histVars, mtxVars, pipeVars, fetchVars, pureVars, storeVars>>

\* runExclusive(fn): finally { release() }, then the result or the error
Release(p) ==
    /\ pc[p] \in {"settled_ok", "settled_err"}
    /\ MutexReleaseEffect(p, IF pc[p] = "settled_ok" THEN "done" ELSE "threw")
    /\ UNCHANGED <<now, limVars, est, histVars, pipeVars, fetchVars, pureVars, storeVars>>

NextMutex ==
    \/ \E p \in Procs : RunExclusive(p)
    \/ \E p \in Procs : StartBody(p)
    \/ \E p \in Procs : FinishBody(p)
    \/ \E p \in Procs : Release(p)

\* the mutex takes no options and reads no clock
InitMutex ==
    /\ InitWith({[limit |-> 1, windowMs |-> 2, maxQueueDelayMs |-> 1]})
    /\ ttlDays = DefaultTtl

SpecMutex == InitMutex /\ [][NextMutex]_vars

\* ------------------------------------------------------------ query cache

DayTicks == 1      \* one day of the clock, in ticks
DefaultPage == 1
DefaultPagecount == 20

\* What the environment variable DBPIA_QUERY_TTL_DAYS may parse to.
TtlChoices ==
    { [kind |-> "NaN", days |-> 0],
      [kind |-> "int", days |-> 0],
      [kind |-> "int", days |-> 1],
      DefaultTtl }

\* The requests callers make: params lists the object's properties in
\* insertion order; page and pagecount are Undefined when absent.
Requests ==
    { [tool |-> "search", target |-> "se", params |-> <<[key |-> "q", value |-> "A"]>>,
       page |-> Undefined, pagecount |-> Undefined],
      [tool |-> "search", target |-> "se", params |-> <<[key |-> "q", value |-> "B"]>>,
       page |-> Undefined, pagecount |-> Undefined] }

\* the place of a property name in the order Array.prototype.sort() gives
\* the names that occur
KeyRank(k) ==
    CASE k = "author" -> 1
      [] k = "q" -> 2
      [] OTHER -> 3

SortParams_InsertionOrder(params) == params
\* makeCacheKey, lines 22-27: Object.keys(params).sort().reduce(...), the
\* properties in the sorted order of their names
RECURSIVE SortParams(_)
SortParams(params) ==
    IF params = <<>> THEN <<>>
    ELSE LET least == CHOOSE i \in 1..Len(params) :
                        \A j \in 1..Len(params) :
                            KeyRank(params[i].key) <= KeyRank(params[j].key)
             rest == [i \in 1..(Len(params) - 1) |->
                        IF i < least THEN params[i] ELSE params[i + 1]]
         IN  <<params[least]>> \o SortParams(rest)

\* v ?? d
Nullish(v, d) == IF v = Undefined THEN d ELSE v

\* makeCacheKey: the sha256 digest of JSON.stringify(canonical); the hash is
\* taken as collision-free, so the digest stands for the text, which lists
\* tool, target, the sorted params, page and pagecount in this order
MakeCacheKey(data) ==
    << data.tool, data.target, SortParams(data.params),
       Nullish(data.page, Num(DefaultPage)),
       Nullish(data.pagecount, Num(DefaultPagecount)) >>

GetCachedQuery_NoExpiry(key) == {r \in query_cache : r.cache_key = key}
\* getCachedQuery: WHERE cache_key = ? AND expires_at > CURRENT_TIMESTAMP;
\* the set holds the row, or is empty for null
GetCachedQuery(key) ==
    {r \in query_cache : r.cache_key = key /\ r.expires_at > now}

RowsAfterSelect_PurgeExpired(tbl, key) ==
    {r \in tbl : r.cache_key # key \/ r.expires_at > now}
\* getCachedQuery runs one SELECT: the table after the call
RowsAfterSelect(tbl, key) == tbl

SetCachedQuery_InsertOrIgnore(tbl, record) ==
    IF \E r \in tbl : r.cache_key = record.cache_key THEN tbl
    ELSE tbl \cup {[ cache_key |-> record.cache_key, tool |-> record.tool,
                     params_json |-> record.params_json, result_json |-> record.result_json,
                     expires_at |-> record.expires_at, fetched_at |-> now ]}
SetCachedQuery_ReplaceTable(tbl, record) ==
    {[ cache_key |-> record.cache_key, tool |-> record.tool,
       params_json |-> record.params_json, result_json |-> record.result_json,
       expires_at |-> record.expires_at, fetched_at |-> now ]}
\* setCachedQuery: INSERT ... ON CONFLICT(cache_key) DO UPDATE SET every column
SetCachedQuery(tbl, record) ==
    {r \in tbl : r.cache_key # record.cache_key}
        \cup {[ cache_key |-> record.cache_key,
                tool |-> record.tool,
                params_json |-> record.params_json,
                result_json |-> record.result_json,
                expires_at |-> record.expires_at,
                fetched_at |-> now ]}

ComputeExpiresAt_NoThrow(ttl) == [kind |-> "ok", at |-> now + ttl.days * DayTicks]
\* computeExpiresAt(ttlDays): date.setDate(date.getDate() + ttlDays); an
\* Invalid Date (ttlDays NaN) makes toISOString throw RangeError
ComputeExpiresAt(ttl) ==
    IF ttl.kind = "NaN"
      THEN [kind |-> "RangeError", at |-> 0]
      ELSE [kind |-> "ok", at |-> now + ttl.days * DayTicks]

\* JSON.stringify(normalized): the text of the value; NaN is written as null
\* and a property whose value is undefined is left out
JsonStringify(v) ==
    [ kind |-> "json",
      items |-> v.items,
      total |-> CASE v.total = "NaN" -> "null"
                  [] v.total = "undefined" -> "absent"
                  [] OTHER -> v.total ]

\* JSON.parse(cached.result_json): the value the text denotes; reading a
\* property the text does not have yields undefined
JsonParse(text) ==
    [ kind |-> "result",
      items |-> text.items,
      total |-> IF text.total = "absent" THEN "undefined" ELSE text.total ]

\* --------------------------------------------------------------- articles

Null == [type |-> "null"]

\* JSON.stringify of an array of strings
JsonArray(a) ==
    "[" \o Join([i \in 1..Len(a) |-> "\"" \o a[i] \o "\""], ",") \o "]"

\* JSON.stringify(article.raw_json ?? {}): the text lists the properties
\* whose value is not undefined
JsonObject(raw) ==
    [ kind |-> "json",
      props |-> IF raw = Undefined THEN {}
                ELSE {<<k, raw[k]>> : k \in {j \in DOMAIN raw : raw[j] # Undefined}} ]

\* parseInt(article.year, 10) as SQLite stores it: the integer, or NULL for NaN
ParseYear(text) ==
    CASE text = "2020" -> Num(2020)
      [] text = "2021" -> Num(2021)
      [] OTHER -> Null

\* upsertArticles, lines 64-71: the values bound to the statement
BoundValues(a) ==
    [ id |-> a.id,
      title |-> a.title,
      authors |-> JsonArray(a.authors.value),
      journal |-> IF Truthy(a.publisher) THEN a.publisher ELSE Null,
      pub_year |-> IF Truthy(a.year) THEN ParseYear(a.year.value) ELSE Null,
      raw_json |-> JsonObject(a.raw_json) ]

\* the columns ON CONFLICT(id) DO UPDATE SET assigns
WrittenColumns == {"title", "authors", "journal", "pub_year", "raw_json", "updated_at"}

\* the row INSERT creates: the bound values, CURRENT_TIMESTAMP, column defaults
InsertedRow(v) ==
    [ id |-> v.id, title |-> v.title, authors |-> v.authors, journal |-> v.journal,
      pub_year |-> v.pub_year, raw_json |-> v.raw_json,
      created_at |-> now, updated_at |-> now,
      fulltext |-> Null, pdf_path |-> Null,
      download_status |-> "pending", downloaded_at |-> Null ]

UpsertRow_InsertOrIgnore(tbl, a) ==
    IF \E r \in tbl : r.id = a.id THEN tbl
    ELSE tbl \cup {InsertedRow(BoundValues(a))}
UpsertRow_Replace(tbl, a) ==
    {r \in tbl : r.id # a.id} \cup {InsertedRow(BoundValues(a))}
\* one upsert.run(...): insert, or on conflict overwrite the listed columns
UpsertRow(tbl, a) ==
    LET excluded == InsertedRow(BoundValues(a)) IN
    IF \E r \in tbl : r.id = a.id
      THEN {IF r.id = a.id
              THEN [c \in DOMAIN r |-> IF c \in WrittenColumns THEN excluded[c] ELSE r[c]]
              ELSE r : r \in tbl}
      ELSE tbl \cup {excluded}

\* upsertArticles: the transaction over all items, in order
RECURSIVE UpsertArticles(_, _)
UpsertArticles(tbl, items) ==
    IF items = <<>> THEN tbl
    ELSE UpsertArticles(UpsertRow(tbl, Head(items)), Tail(items))

\* history: the article last upserted for each id, after one more transaction
RECURSIVE NoteUpserts(_, _)
NoteUpserts(seen, items) ==
    IF items = <<>> THEN seen
    ELSE NoteUpserts({a \in seen : a.id # Head(items).id} \cup {Head(items)},
                     Tail(items))

\* history: the record last set for each cache_key, with the time of the call
NoteSet(seen, record) ==
    {r \in seen : r.cache_key # record.cache_key}
        \cup {[cache_key |-> record.cache_key, tool |-> record.tool,
               params_json |-> record.params_json, result_json |-> record.result_json,
               expires_at |-> record.expires_at, written_at |-> now]}

\* --------------------------------------------------- parse and normalize

\* Response bodies the remote API may send.  An item's id, doi and title are
\* the text of the element, "" when the element is absent; total likewise.
Bodies ==
    { [wellFormed |-> TRUE, blank |-> FALSE, total |-> "1",
       items |-> <<[id |-> "A", doi |-> "", title |-> "t1"]>>],
      [wellFormed |-> TRUE, blank |-> FALSE, total |-> "1,234",
       items |-> <<[id |-> "A", doi |-> "", title |-> "t2"]>>],
      [wellFormed |-> TRUE, blank |-> TRUE, total |-> "", items |-> <<>>],
      [wellFormed |-> FALSE, blank |-> FALSE, total |-> "", items |-> <<>>] }

\* What fetchDbpiaXml settles with: a body, or the error it throws.
Responses ==
    {[kind |-> "ok", body |-> b] : b \in Bodies}
        \cup {[kind |-> "HTTP Error: 401"]}

\* the property parser.parse gives an item for an element: undefined when
\* the element is absent, else its text
XmlValue(text) == IF text = "" THEN Undefined ELSE Str(text)

\* the items of the parsed tree
XmlItems(items) ==
    [i \in 1..Len(items) |->
        [id |-> XmlValue(items[i].id), doi |-> XmlValue(items[i].doi),
         title |-> XmlValue(items[i].title)]]

ParseDbpiaXml_BlankIsError(body) ==
    IF body.blank \/ ~body.wellFormed THEN [kind |-> "ParseError"]
    ELSE [kind |-> "tree", items |-> XmlItems(body.items), total |-> body.total]
ParseDbpiaXml_Lenient(body) ==
    IF body.blank \/ ~body.wellFormed THEN [kind |-> "null"]
    ELSE [kind |-> "tree", items |-> XmlItems(body.items), total |-> body.total]
\* parseDbpiaXml: null for an empty body, else parser.parse(xml), which
\* throws on malformed XML
ParseDbpiaXml(body) ==
    IF body.blank THEN [kind |-> "null"]
    ELSE IF ~body.wellFormed THEN [kind |-> "ParseError"]
    ELSE [kind |-> "tree", items |-> XmlItems(body.items), total |-> body.total]

\* createHash('sha256').update(seed).digest('hex').substring(0, 16): the
\* hash is taken as collision-free, so the digest stands for its seed
Fingerprint(seed) == "sha256:" \o seed

\* computeStableId, lines 143-148: `${title}|${authors}|${year}|${publisher}`
Seed(normalized) ==
    LET title == OrEmpty(normalized.title)
        authors == Join(IF Truthy(normalized.authors)
                          THEN normalized.authors.value ELSE <<>>, ",")
        year == OrEmpty(normalized.year)
        publisher == OrEmpty(normalized.publisher)
    IN  title \o "|" \o authors \o "|" \o year \o "|" \o publisher

\* computeStableId: native id, else DOI, else the content fingerprint
ComputeStableId(normalized, raw_json) ==
    IF Truthy(raw_json.id) THEN ToJsString(raw_json.id)
    ELSE IF Truthy(raw_json.doi) THEN ToJsString(raw_json.doi)
    ELSE Fingerprint(Seed(normalized))

\* result?.total ? Number(result.total) : undefined
NormalizeTotal(total) ==
    CASE total = "" -> "undefined"
      [] total = "1" -> "1"
      [] OTHER -> "NaN"

\* normalizeDbpiaResponse
NormalizeDbpiaResponse(parsed) ==
    LET rawItems == IF parsed.kind = "tree" THEN parsed.items ELSE <<>>
    IN  [ kind |-> "result",
          items |-> [i \in 1..Len(rawItems) |->
                       LET item == rawItems[i]
                           normalized == [ title |-> Str(OrEmpty(item.title)),
                                           authors |-> Arr(<<>>),
                                           year |-> Undefined,
                                           publisher |-> Undefined ]
                       IN  [ id |-> ComputeStableId(normalized, item),
                             title |-> normalized.title.value,
                             authors |-> normalized.authors,
                             year |-> normalized.year,
                             publisher |-> normalized.publisher,
                             raw_json |-> item ]],
          total |-> IF parsed.kind = "tree" THEN NormalizeTotal(parsed.total) ELSE "undefined" ]

\* ---------------------------------------------------------------- runQuery

\* the callers that call runQuery: two calls, concurrent or one after the other
QProcs == {1, 2}
StorageFaults == {"none", "articles", "cache"}

CacheRead_IgnoreRefresh(refresh, cacheKey) == GetCachedQuery(cacheKey)
\* runQuery, lines 26-31: if (!refresh) { cached = getCachedQuery(db, cacheKey) }
CacheRead(refresh, cacheKey) == IF refresh THEN {} ELSE GetCachedQuery(cacheKey)

RunQuery_HitTakesSlot(p) ==
    /\ p \in QProcs
    /\ IsNextCaller(p)
    /\ \E req \in Requests, refresh \in BOOLEAN :
         LET cacheKey == MakeCacheKey(req)
             cached == CacheRead(refresh, cacheKey)
             started == [call[p] EXCEPT
                           !.req = req, !.refresh = refresh, !.cacheKey = cacheKey,
                           !.sawExpired = \E r \in query_cache :
                                              r.cache_key = cacheKey /\ r.expires_at <= now,
                           !.after = IF /\ lastDone # 0
                                        /\ call[lastDone].cacheKey = cacheKey
                                       THEN lastDone ELSE 0]
         IN  IF cached # {}
               THEN LET row == CHOOSE r \in cached : TRUE IN
                    /\ call' = [call EXCEPT ![p] =
                                  [started EXCEPT !.hit = TRUE,
                                                  !.hitStale = row.expires_at <= now,
                                                  !.result = JsonParse(row.result_json)]]
                    /\ pc' = [pc EXCEPT ![p] = "done"]
                    /\ lastDone' = p
                    /\ log' = log
                    /\ timestamps' = Append(Cleanup(timestamps), now)
                    /\ UNCHANGED <<queue, timeout, est, histVars>>
               ELSE /\ call' = [call EXCEPT ![p] = started]
                    /\ AcquireEffect(p)
                    /\ lastDone' = 0
                    /\ log' = log
    /\ UNCHANGED <<now, cfg, mtxVars, ttlDays, fetchVars, pureVars, storeVars, dbVars>>

RunQuery_KeyedByCredential(p) ==
    /\ p \in QProcs
    /\ IsNextCaller(p)
    /\ \E req \in Requests, refresh \in BOOLEAN :
         LET cacheKey == MakeCacheKey([req EXCEPT !.params = @ \o
                           <<[key |-> "key",
                              value |-> ToJsString(IF Truthy(args[p].apiKeyOverride)
                                                     THEN args[p].apiKeyOverride
                                                     ELSE args[p].envKey)]>>])
             cached == CacheRead(refresh, cacheKey)
             started == [call[p] EXCEPT
                           !.req = req, !.refresh = refresh, !.cacheKey = cacheKey,
                           !.sawExpired = \E r \in query_cache :
                                              r.cache_key = cacheKey /\ r.expires_at <= now,
                           !.after = IF /\ lastDone # 0
                                        /\ call[lastDone].cacheKey = cacheKey
                                       THEN lastDone ELSE 0]
         IN  IF cached # {}
               THEN LET row == CHOOSE r \in cached : TRUE IN
                    /\ call' = [call EXCEPT ![p] =
                                  [started EXCEPT !.hit = TRUE,
                                                  !.hitStale = row.expires_at <= now,
                                                  !.result = JsonParse(row.result_json)]]
                    /\ pc' = [pc EXCEPT ![p] = "done"]
                    /\ lastDone' = p
                    /\ log' = log
                    /\ UNCHANGED <<timestamps, queue, timeout, est, histVars>>
               ELSE /\ call' = [call EXCEPT ![p] = started]
                    /\ AcquireEffect(p)
                    /\ lastDone' = 0
                    /\ log' = log
    /\ UNCHANGED <<now, cfg, mtxVars, ttlDays, fetchVars, pureVars, storeVars, dbVars>>

\* runQuery, lines 22-43: the cache read and, on a miss or with refresh, the
\* call of dbpiaLimiter.schedule up to acquire()'s first suspension
RunQuery(p) ==
    /\ p \in QProcs
    /\ IsNextCaller(p)
    /\ \E req \in Requests, refresh \in BOOLEAN :
         LET cacheKey == MakeCacheKey(req)
             cached == CacheRead(refresh, cacheKey)
             started == [call[p] EXCEPT
                           !.req = req, !.refresh = refresh, !.cacheKey = cacheKey,
                           !.sawExpired = \E r \in query_cache :
                                              r.cache_key = cacheKey /\ r.expires_at <= now,
                           !.after = IF /\ lastDone # 0
                                        /\ call[lastDone].cacheKey = cacheKey
                                       THEN lastDone ELSE 0]
         IN  IF cached # {}
               THEN LET row == CHOOSE r \in cached : TRUE IN
                    /\ call' = [call EXCEPT ![p] =
                                  [started EXCEPT !.hit = TRUE,
                                                  !.hitStale = row.expires_at <= now,
                                                  !.result = JsonParse(row.result_json)]]
                    /\ pc' = [pc EXCEPT ![p] = "done"]
                    /\ lastDone' = p
                    /\ log' = log
                    /\ UNCHANGED <<timestamps, queue, timeout, est, histVars>>
               ELSE /\ call' = [call EXCEPT ![p] = started]
                    /\ AcquireEffect(p)
                    /\ lastDone' = 0
                    /\ log' = log
    /\ UNCHANGED <<now, cfg, mtxVars, ttlDays, fetchVars, pureVars, storeVars, dbVars>>

\* schedule: the admitted call's task runs: fetchDbpiaXml(queryParams) starts
\* and makes its first attempt (fetchXml.ts:47-49)
RunFetchTask(p) ==
    /\ p \in QProcs
    /\ pc[p] = "lim_admitted"
    /\ pc' = [pc EXCEPT ![p] = "fetching"]
    /\ call' = [call EXCEPT ![p].fetches = @ + 1, ![p].fetchAt = now,
                            ![p].attempts = 1]
    /\ UNCHANGED <<now, limVars, est, histVars, mtxVars, log, ttlDays, fetchVars, pureVars, storeVars, dbVars, lastDone>>

\* runQuery, lines 43-47: the fetch settles; on success parse, normalize and
\* call dbWriteMutex.runExclusive up to acquire()
FetchSettles(p) ==
    /\ p \in QProcs
    /\ pc[p] = "fetching"
    /\ \E resp \in Responses :
         LET parsed == IF resp.kind = "ok" THEN ParseDbpiaXml(resp.body)
                                            ELSE [kind |-> "none"]
         IN  IF resp.kind # "ok" \/ parsed.kind = "ParseError"
               THEN /\ call' = [call EXCEPT ![p].resp = resp,
                                            ![p].error = IF resp.kind # "ok" THEN resp.kind
                                                         ELSE "ParseError"]
                    /\ pc' = [pc EXCEPT ![p] = "failed"]
                    /\ UNCHANGED <<mtxVars, log>>
               ELSE /\ call' = [call EXCEPT ![p].resp = resp,
                                            ![p].result = NormalizeDbpiaResponse(parsed)]
                    /\ MutexAcquireEffect(p)
    /\ UNCHANGED <<now, limVars, est, histVars, ttlDays, fetchVars, pureVars, storeVars, dbVars, lastDone>>

\* runQuery, lines 47-58: the body run under the mutex: upsertArticles, then
\* computeExpiresAt and setCachedQuery; a storage error or the RangeError
\* rejects the body at that statement
Persist(p) ==
    /\ p \in QProcs
    /\ pc[p] = "mtx_granted"
    /\ \E fault \in StorageFaults :
         LET normalized == call[p].result
             expires == ComputeExpiresAt(ttlDays)
             articlesOk == fault # "articles"
             cacheOk == articlesOk /\ expires.kind = "ok" /\ fault # "cache"
             record == [ cache_key |-> call[p].cacheKey,
                         tool |-> call[p].req.tool,
                         params_json |-> call[p].req.params,
                         result_json |-> JsonStringify(normalized),
                         expires_at |-> expires.at ]
         IN  /\ articles' = IF articlesOk THEN UpsertArticles(articles, normalized.items)
                                          ELSE articles
             /\ lastUpsert' = IF articlesOk THEN NoteUpserts(lastUpsert, normalized.items)
                                            ELSE lastUpsert
             /\ query_cache' = IF cacheOk THEN SetCachedQuery(query_cache, record)
                                          ELSE query_cache
             /\ lastSet' = IF cacheOk THEN NoteSet(lastSet, record) ELSE lastSet
             /\ log' = log \o <<Ev("enter", p)>>
                           \o (IF articlesOk THEN <<Ev("articles", p)>> ELSE <<>>)
                           \o (IF cacheOk THEN <<Ev("cache", p)>> ELSE <<>>)
                           \o <<Ev("exit", p)>>
             /\ pc' = [pc EXCEPT ![p] = IF cacheOk THEN "settled_ok" ELSE "settled_err"]
             /\ call' = [call EXCEPT ![p].error =
                           IF cacheOk THEN ""
                           ELSE IF ~articlesOk \/ expires.kind = "ok" THEN "SqliteError"
                           ELSE "RangeError"]
    /\ lastDone' = 0
    /\ UNCHANGED <<now, limVars, est, histVars, mtxVars, ttlDays, fetchVars, pureVars,
                   storeOp, schema, applied>>

QueryReturn_BeforeWrite(p) ==
    /\ p \in QProcs
    /\ pc[p] \in {"mtx_granted", "settled_ok", "settled_err"}
    /\ MutexReleaseEffect(p, IF pc[p] = "settled_err" THEN "failed" ELSE "done")
    /\ lastDone' = IF pc[p] # "settled_err" THEN p ELSE lastDone
    /\ UNCHANGED <<now, limVars, est, histVars, ttlDays, fetchVars, pureVars, storeVars, dbVars, call>>

\* runExclusive's finally releases the mutex; runQuery returns normalized, or
\* the body's error propagates
QueryReturn(p) ==
    /\ p \in QProcs
    /\ pc[p] \in {"settled_ok", "settled_err"}
    /\ MutexReleaseEffect(p, IF pc[p] = "settled_ok" THEN "done" ELSE "failed")
    /\ lastDone' = IF pc[p] = "settled_ok" THEN p ELSE lastDone
    /\ UNCHANGED <<now, limVars, est, histVars, ttlDays, fetchVars, pureVars, storeVars, dbVars, call>>

\* the wall clock advances between the steps of runQuery calls; the release
\* and the return at runQuery.ts:58-60 follow the body without a suspension
\* on I/O or a timer, so no tick separates them from the write; nor does one
\* separate acquire()'s resolution from the call of fn() in schedule
\* (rateLimiter.ts:83-84), the continuation of an await
QueryTick ==
    /\ \A p \in QProcs : pc[p] \notin {"lim_admitted", "settled_ok", "settled_err"}
    /\ ClockAdvances(MaxQueryTime)
    /\ lastDone' = 0
    /\ UNCHANGED <<limVars, pc, est, histVars, mtxVars, log, ttlDays, fetchVars, pureVars, storeVars, dbVars, call>>

\* instances.ts: dbpiaLimiter's maxQueueDelayMs is below its windowMs; with
\* limit 1 the second call is throttled
PipelineConfigs ==
    {c \in LimiterConfigs : c.maxQueueDelayMs < c.windowMs /\ c.limit = 1}

Init == InitWith(PipelineConfigs) /\ ttlDays \in TtlChoices

Next ==
    \/ \E p \in Procs : RunQuery(p)
    \/ \E p \in Procs : RunFetchTask(p)
    \/ \E p \in Procs : FetchSettles(p)
    \/ \E p \in Procs : Persist(p)
    \/ \E p \in Procs : QueryReturn(p)
    \/ TimerFire
    \/ QueryTick

Spec == Init /\ [][Next]_vars

\* the same calls with the attempts of fetchDbpiaXml's retry loop made visible
FetchRetries_Reacquire(p) ==
    /\ p \in QProcs
    /\ pc[p] = "fetching"
    /\ call[p].attempts < DefaultFetchOptions.maxRetries + 1
    /\ call' = [call EXCEPT ![p].attempts = @ + 1]
    /\ timestamps' = Append(timestamps, now)
    /\ admits' = Append(admits, [p |-> p, at |-> now])
    /\ UNCHANGED <<now, cfg, queue, timeout, pc, est, arrivals, mtxVars, log, ttlDays,
                   fetchVars, pureVars, storeVars, dbVars, lastDone>>

\* fetchDbpiaXml, lines 47-103: the loop body runs again for attempt + 1
\* (continue at 70, 82 and 99); nothing in the loop refers to the limiter
FetchRetries(p) ==
    /\ p \in QProcs
    /\ pc[p] = "fetching"
    /\ call[p].attempts < DefaultFetchOptions.maxRetries + 1
    /\ call' = [call EXCEPT ![p].attempts = @ + 1]
    /\ UNCHANGED <<now, limVars, pc, est, histVars, mtxVars, log, ttlDays,
                   fetchVars, pureVars, storeVars, dbVars, lastDone>>

InitRetries == InitWith(PipelineConfigs) /\ ttlDays = DefaultTtl

NextRetries ==
    \/ Next
    \/ \E p \in Procs : FetchRetries(p)

SpecRetries == InitRetries /\ [][NextRetries]_vars

\* ------------------------------------------------------------ fetchDbpiaXml

MaxRetriesMax == 2     \* largest maxRetries a caller passes
MaxBackoffMs == 2      \* largest retryBackoffMs a caller passes, in ticks
MaxTimeoutMs == 2      \* largest timeoutMs a caller passes, in ticks

\* The opts callers pass (FetchOptions).
FetchOptionsChoices ==
    [timeoutMs : 1..MaxTimeoutMs, maxRetries : 0..MaxRetriesMax,
     retryBackoffMs : 1..MaxBackoffMs]

\* How one attempt can end.  "ok": a 2xx response whose body decodes;
\* "http": a response with !response.ok, its status and whether its status
\* text contains the characters "HTTP Error: 5"; "abort": the timeout timer
\* aborted the request; "network": fetch rejects with TypeError; "decode":
\* iconv.decode throws on the charset of the Content-Type header.
AttemptOutcomes ==
    {[kind |-> "ok", status |-> 200, statusTextHasMarker |-> FALSE]}
      \cup [kind : {"http"}, status : {401, 500}, statusTextHasMarker : BOOLEAN]
      \cup [kind : {"abort", "network", "decode"}, status : {0}, statusTextHasMarker : {FALSE}]

\* The error object the catch block receives: its name, and of its message
\* `HTTP Error: ${status} ${statusText}` the status (0: another message) and
\* whether the status text contains "HTTP Error: 5".
ErrorOf(outcome) ==
    [ name |-> CASE outcome.kind = "abort" -> "AbortError"
                 [] outcome.kind = "network" -> "TypeError"
                 [] OTHER -> "Error",
      status |-> IF outcome.kind = "http" THEN outcome.status ELSE 0,
      statusTextHasMarker |-> outcome.kind = "http" /\ outcome.statusTextHasMarker ]

IsAbort_Never(error) == FALSE
\* error.name === 'AbortError'
IsAbort(error) == error.name = "AbortError"

\* error.message.includes('HTTP Error: 5'): the status begins with 5, or the
\* text occurs in the status text
IsServerError(error) ==
    error.status # 0 /\ (error.status \div 100 = 5 \/ error.statusTextHasMarker)

ShouldRetry(error) == IsAbort(error) \/ IsServerError(error)

MayRetry_Never(a) == FALSE
\* line 94: attempt < maxRetries
MayRetry(a) == a < opts.maxRetries

RECURSIVE Pow2(_)
Pow2(n) == IF n = 0 THEN 1 ELSE 2 * Pow2(n - 1)

Backoff_Constant(a) == opts.retryBackoffMs
\* line 95: retryBackoffMs * Math.pow(2, attempt)
Backoff(a) == opts.retryBackoffMs * Pow2(a)

\* fetchDbpiaXml(params, opts), lines 33-52: the first pass through the loop
\* head arms the timeout timer and starts the request
FetchDbpiaXml ==
    /\ fetchPc = "idle"
    /\ \E o \in FetchOptionsChoices : opts' = o
    /\ attempt' = 0
    /\ fetchPc' = "in_flight"
    /\ elapsed' = 0
    /\ timerDelay' = opts'.timeoutMs
    /\ UNCHANGED <<lastError, settled, outcomes, waits>>
    /\ UNCHANGED <<now, limVars, pc, est, histVars, mtxVars, log, pipeVars, pureVars, storeVars>>

\* lines 52-102: the attempt ends.  A response or a network error can come
\* at any time; the abort comes once the timeout timer is due.
AttemptSettles ==
    /\ fetchPc = "in_flight"
    /\ \E outcome \in AttemptOutcomes :
         /\ outcome.kind = "abort" => elapsed >= timerDelay
         /\ outcomes' = Append(outcomes, outcome)
         /\ IF outcome.kind = "ok"
              THEN /\ settled' = [kind |-> "result", status |-> outcome.status]
                   /\ fetchPc' = "returned"
                   /\ UNCHANGED <<lastError, elapsed, timerDelay>>
              ELSE LET error == ErrorOf(outcome) IN
                   /\ lastError' = error
                   /\ IF ShouldRetry(error) /\ MayRetry(attempt)
                        THEN /\ fetchPc' = "backoff"
                             /\ elapsed' = 0
                             /\ timerDelay' = Backoff(attempt)
                             /\ settled' = settled
                        ELSE /\ fetchPc' = "thrown"
                             /\ settled' = [kind |-> "error", error |-> error]
                             /\ UNCHANGED <<elapsed, timerDelay>>
    /\ UNCHANGED <<opts, attempt, waits>>
    /\ UNCHANGED <<now, limVars, pc, est, histVars, mtxVars, log, pipeVars, pureVars, storeVars>>

\* lines 96-97 and 47-52: the backoff timer fires, `continue` runs the loop
\* head, and the next attempt starts
BackoffFires ==
    /\ fetchPc = "backoff"
    /\ elapsed >= timerDelay
    /\ waits' = Append(waits, elapsed)
    /\ attempt' = attempt + 1
    /\ IF attempt + 1 <= opts.maxRetries
         THEN /\ fetchPc' = "in_flight"
              /\ settled' = settled
         ELSE \* line 105: throw lastError
              /\ fetchPc' = "thrown"
              /\ settled' = [kind |-> "error", error |-> lastError]
    /\ elapsed' = 0
    /\ timerDelay' = opts.timeoutMs
    /\ UNCHANGED <<opts, lastError, outcomes>>
    /\ UNCHANGED <<now, limVars, pc, est, histVars, mtxVars, log, pipeVars, pureVars, storeVars>>

\* time passes while a request or a backoff is awaited; the time past the
\* timer's delay is not counted
FetchTick ==
    /\ fetchPc \in {"in_flight", "backoff"}
    /\ elapsed < timerDelay
    /\ \E d \in 1..MaxStep : elapsed' = Min(timerDelay, elapsed + d)
    /\ UNCHANGED <<opts, attempt, fetchPc, timerDelay, lastError, settled, outcomes, waits>>
    /\ UNCHANGED <<now, limVars, pc, est, histVars, mtxVars, log, pipeVars, pureVars, storeVars>>

InitFetch ==
    /\ InitWith({[limit |-> 1, windowMs |-> 2, maxQueueDelayMs |-> 1]})
    /\ ttlDays = DefaultTtl

NextFetch ==
    \/ FetchDbpiaXml
    \/ AttemptSettles
    \/ BackoffFires
    \/ FetchTick

SpecFetch == InitFetch /\ [][NextFetch]_vars

\* The timers fire and the clock moves: an attempt that gets no answer is
\* aborted by its timeout timer.
AttemptAborts ==
    /\ elapsed >= timerDelay
    /\ AttemptSettles

FairSpecFetch ==
    /\ SpecFetch
    /\ WF_vars(FetchTick)
    /\ WF_vars(AttemptAborts)
    /\ WF_vars(BackoffFires)

\* ------------------------------------------------------------------ claims

AdmittedIn(lo, hi) == {i \in 1..Len(admits) : admits[i].at > lo /\ admits[i].at <= hi}
IsRejected(p) == pc[p] = "rejected"
InQueue(p) == \E i \in 1..Len(queue) : queue[i].p = p
WasAdmitted(p) == \E i \in 1..Len(admits) : admits[i].p = p

\* C1: for every instant t, the callers admitted (immediately or out of the
\* queue) at a time in the trailing interval (t - windowMs, t] number at most
\* limit.
C1_WindowNeverExceedsLimit ==
    \A t \in 1..MaxTime :
        Cardinality(AdmittedIn(t - cfg.windowMs, t)) <= cfg.limit

\* C1 witness: more callers than limit have been admitted, some of them out of
\* the queue after waiting, and one window is filled to exactly limit.
C1_Witness ==
    /\ Len(admits) > cfg.limit
    /\ \E p \in Procs : est[p] # NoEst /\ WasAdmitted(p)
    /\ \E t \in 1..MaxTime :
         Cardinality(AdmittedIn(t - cfg.windowMs, t)) = cfg.limit

\* C2: the callers admitted so far are exactly the earliest-arrived callers
\* among those not rejected, admitted in their order of arrival.
C2_AdmissionIsFifo ==
    LET accepted == SelectSeq(arrivals, LAMBDA p : ~IsRejected(p))
    IN  /\ Len(admits) <= Len(accepted)
        /\ \A i \in 1..Len(admits) : admits[i].p = accepted[i]

\* C2 witness: a caller arrived while a window slot was free but the queue was
\* not empty (its estimate is 0), and was admitted behind an earlier caller.
C2_Witness ==
    \E i \in 2..Len(admits) :
        /\ est[admits[i].p] = 0
        /\ est[admits[i - 1].p] # NoEst

\* C10: a caller whose estimated wait exceeded maxQueueDelayMs is rejected: it
\* is not in the queue, was never admitted, and its task has not run.
C10_OverEstimateIsRejected ==
    \A p \in Procs :
        (est[p] # NoEst /\ est[p] > cfg.maxQueueDelayMs) =>
            /\ pc[p] = "rejected"
            /\ ~InQueue(p)
            /\ ~WasAdmitted(p)

\* C10 witness: one caller was rejected while another one's task has run and
\* a third is still queued.
C10_Witness ==
    \E p, q, r \in Procs :
        /\ pc[p] = "rejected" /\ est[p] > cfg.maxQueueDelayMs
        /\ pc[q] = "task_run"
        /\ pc[r] = "lim_queued"

LogOf(kinds) == SelectSeq(log, LAMBDA e : e.kind \in kinds)
ProcsOf(evs) == [i \in 1..Len(evs) |-> evs[i].p]
IsPrefix(a, b) == Len(a) <= Len(b) /\ \A i \in 1..Len(a) : a[i] = b[i]

\* C3: at most one task body is between its start and its settlement, and
\* the enter/exit events alternate: each enter is directly followed (among
\* enter/exit events) by the exit of the same task.
C3_BodiesNeverInterleave ==
    LET ee == LogOf({"enter", "exit"}) IN
    /\ Cardinality({p \in Procs : pc[p] = "body"}) <= 1
    /\ \A i \in 1..Len(ee) :
         IF i % 2 = 1
           THEN ee[i].kind = "enter"
           ELSE ee[i].kind = "exit" /\ ee[i].p = ee[i - 1].p

\* C3 witness: while p's body was suspended between its enter and its exit,
\* q called runExclusive; q's body has since run too.
C3_Witness ==
    \E i \in 1..Len(log) :
        /\ log[i].kind = "enter"
        /\ \E j \in (i + 1)..Len(log) :
             /\ log[j].kind = "call"
             /\ \E k \in (j + 1)..Len(log) :
                  /\ log[k] = Ev("exit", log[i].p)
                  /\ \E l \in (k + 1)..Len(log) : log[l] = Ev("exit", log[j].p)

\* C4: task bodies start in the order in which runExclusive was called.
C4_BodiesStartInCallOrder ==
    IsPrefix(ProcsOf(LogOf({"enter"})), ProcsOf(LogOf({"call"})))

\* C4 witness: n called runExclusive after release had handed the lock to the
\* queued waiter w and before w's body started, while another waiter was still
\* queued; w's body, then the other waiter's, then n's have started.
C4_Witness ==
    \E i \in 1..Len(log) :
        /\ log[i].kind = "handoff"
        /\ \E j \in (i + 1)..Len(log) :
             /\ log[j].kind = "call"
             /\ \E k \in (j + 1)..Len(log) :
                  /\ log[k] = Ev("enter", log[i].p)
                  /\ \E l \in (k + 1)..Len(log) :
                       /\ log[l].kind = "enter"
                       /\ \E m \in (l + 1)..Len(log) : log[m] = Ev("enter", log[j].p)

Started(p) == pc[p] # "idle"
Ended(p) == pc[p] \in {"done", "failed", "rejected"}
Logged(kind, p) == \E i \in 1..Len(log) : log[i] = Ev(kind, p)
CalledLimiter(p) == \E i \in 1..Len(arrivals) : arrivals[i] = p
RowsOf(p) == {r \in query_cache : r.cache_key = call[p].cacheKey}
LastCacheWriter ==
    LET w == LogOf({"cache"}) IN IF w = <<>> THEN 0 ELSE w[Len(w)].p

\* C5: a call without refresh that directly follows a successful call for
\* the same key (no clock advance, no write in between) makes no network call
\* and returns a result equal to the first call's.
C5_CacheTransparency ==
    \A q \in QProcs :
        (call[q].after # 0 /\ ~call[q].refresh) =>
            /\ call[q].hit
            /\ call[q].fetches = 0
            /\ call[q].result = call[call[q].after].result

\* C6 as stated: every refresh=true call that has ended performed a network
\* call.
C6_RefreshAlwaysFetches ==
    \A p \in QProcs : (call[p].refresh /\ Ended(p)) => call[p].fetches >= 1

\* C6 amended: a refresh=true call never returns the cached entry, even
\* directly after the call that stored it: it asks the limiter for a slot;
\* unless the limiter rejects it, it performs exactly one fetch before it
\* ends; and when it succeeds the cache row of its key, until a later write,
\* holds its own result with the expiry computed at its write.
C6_RefreshBypassesCache ==
    \A p \in QProcs :
        (call[p].refresh /\ Started(p)) =>
            /\ ~call[p].hit
            /\ CalledLimiter(p)
            /\ (pc[p] = "rejected") => call[p].fetches = 0
            /\ (pc[p] \in {"done", "failed"}) => call[p].fetches = 1
            /\ (pc[p] = "done" /\ LastCacheWriter = p) =>
                 \E r \in query_cache :
                     /\ RowsOf(p) = {r}
                     /\ r.result_json = JsonStringify(call[p].result)
                     /\ r.expires_at = r.fetched_at + ttlDays.days * DayTicks

\* C6 witness: a refresh=true call started directly after the successful call
\* that stored a still valid entry for its key; it fetched, got a different
\* result and replaced the entry.
C6_Witness ==
    \E p \in QProcs :
        /\ call[p].refresh /\ call[p].after # 0 /\ ~call[p].sawExpired
        /\ pc[p] = "done" /\ call[p].fetches = 1
        /\ call[p].result.items # call[call[p].after].result.items
        /\ \E r \in RowsOf(p) : r.result_json = JsonStringify(call[p].result)

\* C7: no call was handed a cache row whose expires_at was not later than the
\* time of the read; a call without refresh that found only such a row took
\* the miss path: limiter, then (if it got that far) one fetch and, on
\* success, its own cache write.
C7_ExpiredIsMiss ==
    \A p \in QProcs :
        /\ call[p].hit => ~call[p].hitStale
        /\ (Started(p) /\ call[p].sawExpired) =>
             /\ ~call[p].hit
             /\ CalledLimiter(p)
             /\ (pc[p] = "done") => (call[p].fetches = 1 /\ Logged("cache", p))

\* C7 witness: a call without refresh found an expired row for its key, went
\* through limiter, fetch and write, and has returned.
C7_Witness ==
    \E p \in QProcs :
        /\ ~call[p].refresh /\ call[p].sawExpired
        /\ pc[p] = "done" /\ call[p].fetches = 1 /\ Logged("cache", p)

FetchOrParseFailed(p) ==
    LET r == call[p].resp IN
    \/ r.kind \notin {"none", "ok"}
    \/ r.kind = "ok" /\ ~r.body.blank /\ ~r.body.wellFormed

\* C8: a call whose fetch threw, or whose body did not parse, has failed
\* without calling the write mutex and without writing articles or a cache
\* record.
C8_FailedCallWritesNothing ==
    \A p \in QProcs :
        FetchOrParseFailed(p) =>
            /\ pc[p] = "failed"
            /\ \A k \in {"call", "handoff", "enter", "articles", "cache", "exit", "release"} :
                  ~Logged(k, p)

\* C8 witness: one call's body failed to parse and the call failed with the
\* parse error, while the tables hold what the other call has written.
C8_Witness ==
    \E p, q \in QProcs :
        /\ call[p].resp.kind = "ok" /\ ~call[p].resp.body.wellFormed
        /\ pc[p] = "failed" /\ call[p].error = "ParseError"
        /\ Logged("cache", q) /\ query_cache # {} /\ articles # {}

\* C9: when a cache-miss call that had entities to persist has ended, it has
\* written either its entities and its cache record, or neither.
C9_PersistenceIsAtomic ==
    \A p \in QProcs :
        (Ended(p) /\ call[p].result.kind = "result" /\ ~call[p].hit
                  /\ call[p].result.items # <<>>) =>
            (Logged("articles", p) <=> Logged("cache", p))

TaskMayRun(p) == pc[p] \in {"lim_admitted", "task_run"}

\* C11: on a limiter with limit 1 the first caller is admitted inside its own
\* acquire() (never queued, no estimate computed), and the second caller's
\* task can run only once the clock is at least windowMs past the first
\* caller's admission.
C11_SecondWaitsOneWindow ==
    (cfg.limit = 1 /\ arrivals # <<>>) =>
        /\ admits # <<>> /\ admits[1].p = arrivals[1]
        /\ est[arrivals[1]] = NoEst /\ TaskMayRun(arrivals[1])
        /\ (Len(arrivals) >= 2 /\ TaskMayRun(arrivals[2])) =>
              now >= admits[1].at + cfg.windowMs

\* C11 witness: the second caller arrived in the same instant as the first
\* (its estimate was the whole window), was queued, and its task has run.
C11_Witness ==
    /\ cfg.limit = 1 /\ Len(arrivals) >= 2
    /\ est[arrivals[2]] = cfg.windowMs
    /\ pc[arrivals[1]] = "task_run" /\ pc[arrivals[2]] = "task_run"
    /\ Len(admits) >= 2 /\ admits[2].at >= admits[1].at + cfg.windowMs

FetchEnded == fetchPc \in {"returned", "thrown"}
Failed(o) == o.kind # "ok"
TimeoutOrServerStatus(o) == o.kind = "abort" \/ (o.kind = "http" /\ o.status \in 500..599)

\* C12: an attempt that failed otherwise than by a timeout/abort or an HTTP
\* 5xx status is the last attempt: the call has thrown that attempt's error,
\* and no wait followed it.
C12_RetryOnlyOnTimeoutOr5xx ==
    \A i \in 1..Len(outcomes) :
        (Failed(outcomes[i]) /\ ~TimeoutOrServerStatus(outcomes[i])) =>
            /\ i = Len(outcomes)
            /\ fetchPc = "thrown"
            /\ settled = [kind |-> "error", error |-> ErrorOf(outcomes[i])]
            /\ Len(waits) = i - 1

RetryableFailure(o) == Failed(o) /\ ShouldRetry(ErrorOf(o))

C13_AttemptsBounded ==
    LET n == Len(outcomes) IN
    /\ n <= opts.maxRetries + 1
    /\ n = IF fetchPc \in {"idle", "in_flight"} THEN attempt ELSE attempt + 1
    /\ \A i \in 1..(n - 1) : RetryableFailure(outcomes[i])
    /\ FetchEnded =>
         /\ n >= 1
         /\ ~RetryableFailure(outcomes[n]) \/ n = opts.maxRetries + 1
         /\ fetchPc = "returned" <=> outcomes[n].kind = "ok"
         /\ fetchPc = "thrown" =>
              settled = [kind |-> "error", error |-> ErrorOf(outcomes[n])]

\* C13: a call makes at most maxRetries + 1 attempts; every attempt before
\* the last failed retryably, and the last is the first that succeeded or
\* failed non-retryably, or else attempt number maxRetries + 1; a call that
\* throws throws the error of its last attempt; and every call ends.
C13_AttemptsBoundedAndCallEnds ==
    /\ []C13_AttemptsBounded
    /\ (fetchPc # "idle") ~> FetchEnded

\* C13 witness: with maxRetries = 2 all three attempts failed retryably, the
\* first by a timeout and the last with HTTP 500, and the call threw the
\* last attempt's error.
C13_Witness ==
    /\ fetchPc = "thrown" /\ opts.maxRetries = 2 /\ Len(outcomes) = 3
    /\ outcomes[1].kind = "abort" /\ outcomes[3].kind = "http"
    /\ outcomes[3].status = 500
    /\ settled.error = ErrorOf(outcomes[3]) /\ settled.error # ErrorOf(outcomes[1])

\* C14: before attempt a + 1 starts the call has waited at least
\* retryBackoffMs * 2^a since attempt a failed; a wait is pending only after
\* a retryable failure of an attempt that is not the last allowed; and a call
\* that has ended has waited once per attempt but the last.
C14_BackoffBetweenAttempts ==
    /\ \A i \in 1..Len(waits) : waits[i] >= opts.retryBackoffMs * Pow2(i - 1)
    /\ fetchPc = "in_flight" => Len(waits) = attempt
    /\ fetchPc = "backoff" =>
         /\ attempt < opts.maxRetries
         /\ RetryableFailure(outcomes[Len(outcomes)])
         /\ Len(waits) = Len(outcomes) - 1
    /\ FetchEnded => Len(waits) = Len(outcomes) - 1

\* C14 witness: HTTP 500 twice, then 200: the second attempt started after a
\* wait of retryBackoffMs, the third after a wait of twice that, and the call
\* returned the response without a further wait.
C14_Witness ==
    /\ fetchPc = "returned" /\ Len(outcomes) = 3 /\ opts.retryBackoffMs = 2
    /\ outcomes[1].kind = "http" /\ outcomes[1].status = 500
    /\ outcomes[2].kind = "http" /\ outcomes[2].status = 500
    /\ waits = <<2, 4>> /\ settled.status = 200

WriteKinds == {"enter", "articles", "cache", "exit"}
FetchSucceeded(p) == call[p].resp.kind = "ok"
BodyParsed(p) == FetchSucceeded(p) /\ ParseDbpiaXml(call[p].resp.body).kind # "ParseError"
PersistThrew(p) == call[p].error \in {"SqliteError", "RangeError"}
ConcurrentPair(p, q) ==
    /\ p # q /\ call[p].cacheKey # call[q].cacheKey
    /\ FetchSucceeded(p) /\ FetchSucceeded(q) /\ Ended(p) /\ Ended(q)
PersistedOwn(p) ==
    /\ pc[p] = "done"
    /\ Logged("articles", p) /\ Logged("cache", p)
    /\ \E r \in query_cache :
         RowsOf(p) = {r} /\ r.result_json = JsonStringify(call[p].result)
    /\ \A i \in 1..Len(call[p].result.items) :
         \E a \in articles : a.id = call[p].result.items[i].id
\* the write events of different calls are never interleaved
WritesInBlocks ==
    LET w == LogOf(WriteKinds) IN
    \A i \in 1..Len(w) : \A k \in (i + 1)..Len(w) :
        w[i].p = w[k].p => \A j \in i..k : w[j].p = w[i].p

HoldsWriteLock(p) == pc[p] \in {"mtx_granted", "settled_ok", "settled_err"}

\* C16: at most one call is inside its persistence step (between the grant
\* of the write mutex and its release) at any time.
C16_OnePersistenceAtATime ==
    Cardinality({p \in QProcs : HoldsWriteLock(p)}) <= 1

\* C16 witness: two calls have their transport fetch in flight at once.
C16_Witness ==
    \E p, q \in QProcs : p # q /\ pc[p] = "fetching" /\ pc[q] = "fetching"

\* ------------------------------------------------- computeStableId, alone

\* The items computeStableId is called with: the normalized fields and the
\* raw item.
StableIdArgs ==
    [ raw_json : [id : {Undefined, Num(0), Str("NODE1")},
                  doi : {Undefined, Str("10.1/x")}],
      normalized : [title : {Str("T"), Str("U")},
                    authors : {Arr(<<>>), Arr(<<"Kim, M">>), Arr(<<"Kim", " M">>)},
                    year : {Undefined, Str("2024")},
                    publisher : {Undefined, Str("P")}] ]

\* one call of computeStableId, for the i-th item
DeriveId(i) ==
    /\ i \in 1..Len(args)
    /\ results[i] = Undefined
    /\ results' = [results EXCEPT
                     ![i] = Str(ComputeStableId(args[i].normalized, args[i].raw_json))]
    /\ UNCHANGED <<args, storeVars, now, limVars, pc, est, histVars, mtxVars, log, pipeVars, fetchVars>>

InitPure ==
    /\ InitIdle
    /\ schema = MigratedSchema
    /\ applied = AppliedIn(schema)
    /\ cfg = [limit |-> 1, windowMs |-> 2, maxQueueDelayMs |-> 1]
    /\ ttlDays = DefaultTtl

InitStableId ==
    /\ InitPure
    /\ args \in StableIdArgs \X StableIdArgs
    /\ results = <<Undefined, Undefined>>

NextStableId == \E i \in 1..2 : DeriveId(i)

SpecStableId == InitStableId /\ [][NextStableId]_vars

\* --------------------------------------------------- makeCacheKey, alone

\* The requests makeCacheKey is called with.
CacheKeyArgs ==
    [ tool : {"dbpia_search", "dbpia_detail"},
      target : {"se", "se_adv"},
      params : { <<>>,
                 <<[key |-> "q", value |-> "a"]>>,
                 <<[key |-> "q", value |-> "b"]>>,
                 <<[key |-> "author", value |-> "a"]>>,
                 <<[key |-> "q", value |-> "a"], [key |-> "author", value |-> "a"]>>,
                 <<[key |-> "author", value |-> "a"], [key |-> "q", value |-> "a"]>>,
                 <<[key |-> "q", value |-> "b"], [key |-> "author", value |-> "a"]>>,
                 <<[key |-> "author", value |-> "a"], [key |-> "q", value |-> "b"]>> },
      page : {Undefined, Num(1), Num(2)},
      pagecount : {Undefined, Num(20)} ]

\* one call of makeCacheKey, for the i-th request
DeriveKey(i) ==
    /\ i \in 1..Len(args)
    /\ results[i] = Undefined
    /\ results' = [results EXCEPT ![i] = [type |-> "key", value |-> MakeCacheKey(args[i])]]
    /\ UNCHANGED <<args, storeVars, now, limVars, pc, est, histVars, mtxVars, log, pipeVars, fetchVars>>

InitCacheKey ==
    /\ InitPure
    /\ args \in CacheKeyArgs \X CacheKeyArgs
    /\ results = <<Undefined, Undefined>>

NextCacheKey == \E i \in 1..2 : DeriveKey(i)

SpecCacheKey == InitCacheKey /\ [][NextCacheKey]_vars

Called(i) == results[i] # Undefined
Carries(v) == v # Undefined

\* C17: the id of an item that carries a native id is that id; else, if it
\* carries a DOI, the DOI; else the fingerprint of
\* title|authors joined by comma|year|publisher; and equal items get equal ids.
C17_ThreeTieredId ==
    \A i \in 1..Len(args) :
        Called(i) =>
            LET raw == args[i].raw_json IN
            /\ Carries(raw.id) => results[i] = Str(ToJsString(raw.id))
            /\ (~Carries(raw.id) /\ Carries(raw.doi)) =>
                  results[i] = Str(ToJsString(raw.doi))
            /\ (~Carries(raw.id) /\ ~Carries(raw.doi)) =>
                  results[i] = Str(Fingerprint(Seed(args[i].normalized)))
            /\ \A j \in 1..Len(args) :
                  (Called(j) /\ args[j] = args[i]) => results[j] = results[i]

SeedFields == {"title", "authors", "year", "publisher"}
FieldsChanged(x, y) == {f \in SeedFields : x.normalized[f] # y.normalized[f]}
NoIdNoDoi(x) == ~Carries(x.raw_json.id) /\ ~Carries(x.raw_json.doi)

\* C18: two items with neither native id nor DOI that differ in exactly one
\* of title, authors, year and publisher get different ids.
C18_SeedFieldChangesId ==
    (/\ Called(1) /\ Called(2)
     /\ NoIdNoDoi(args[1]) /\ NoIdNoDoi(args[2])
     /\ Cardinality(FieldsChanged(args[1], args[2])) = 1)
        => results[1] # results[2]

ParamsOf(x) == {x.params[i] : i \in 1..Len(x.params)}
SameRequest(x, y) ==
    /\ x.tool = y.tool /\ x.target = y.target
    /\ ParamsOf(x) = ParamsOf(y)
    /\ (IF x.page = Undefined THEN Num(1) ELSE x.page)
         = (IF y.page = Undefined THEN Num(1) ELSE y.page)
    /\ (IF x.pagecount = Undefined THEN Num(20) ELSE x.pagecount)
         = (IF y.pagecount = Undefined THEN Num(20) ELSE y.pagecount)

Returned(p) == pc[p] = "done"
ThrownTo(p) ==
    CASE pc[p] = "rejected" -> "RATE_LIMITED"
      [] pc[p] = "failed" -> call[p].error
      [] OTHER -> ""

\* C20: a call the limiter rejected, whose fetch threw, whose body did not
\* parse or whose persistence step threw never returns a result, from the
\* fetch or from the cache: once it has ended, its caller has got the error
\* of the step that failed.
C20_FailureSurfaces ==
    \A p \in QProcs :
        /\ (CalledLimiter(p) /\ est[p] # NoEst /\ est[p] > cfg.maxQueueDelayMs) =>
              (ThrownTo(p) = "RATE_LIMITED" /\ call[p].fetches = 0)
        /\ (call[p].resp.kind \notin {"none", "ok"}) =>
              ThrownTo(p) = call[p].resp.kind
        /\ (FetchSucceeded(p) /\ ~BodyParsed(p)) => ThrownTo(p) = "ParseError"
        /\ (Logged("articles", p) /\ ttlDays.kind = "NaN") =>
              (~Returned(p) /\ (Ended(p) => ThrownTo(p) = "RangeError"))
        /\ (Logged("exit", p) /\ ~Logged("cache", p)) =>
              (~Returned(p) /\ (Ended(p) => ThrownTo(p) \in {"SqliteError", "RangeError"}))
        /\ Returned(p) => (ThrownTo(p) = "" /\ (call[p].hit \/ Logged("cache", p)))

\* C20 witness: a refresh=true call made directly after the call that stored
\* a still valid entry for its key got HTTP 401 from its fetch; it has ended
\* with that error and the entry is still in the cache.
C20_Witness ==
    \E p \in QProcs :
        /\ call[p].refresh /\ call[p].after # 0 /\ ~call[p].sawExpired
        /\ call[p].resp.kind = "HTTP Error: 401"
        /\ pc[p] = "failed" /\ ThrownTo(p) = "HTTP Error: 401" /\ ~call[p].hit
        /\ GetCachedQuery(call[p].cacheKey) # {}

\* ------------------------------------------- the storage functions, alone

MaxStoreTime == 3  \* where the clock stops while storage calls are modelled

\* The articles upsertArticles is called with.
StoreArticles ==
    { [ id |-> "A", title |-> "t1", authors |-> Arr(<<"Kim">>),
        year |-> Str("2020"), publisher |-> Str("P"),
        raw_json |-> [id |-> Str("A"), doi |-> Undefined, title |-> Str("t1")] ],
      [ id |-> "A", title |-> "t2", authors |-> Arr(<<>>),
        year |-> Undefined, publisher |-> Str(""), raw_json |-> Undefined ],
      [ id |-> "B", title |-> "t1", authors |-> Arr(<<"Lee", "Park">>),
        year |-> Str("n.d."), publisher |-> Undefined,
        raw_json |-> [id |-> Str("B"), doi |-> Str("10.1/b"), title |-> Str("t1")] ] }
StoreIds == {a.id : a \in StoreArticles}
StoreItemLists ==
    {<<a>> : a \in StoreArticles} \cup {<<a, b>> : a, b \in StoreArticles}

\* index.ts:242-243: migrate(db) runs at every start, before any tool
Migrate ==
    /\ schema' = MigrateSchema(schema)
    /\ applied' = [m \in MigrationIds |->
                     applied[m] + IF m \in ExecutedBy(schema) THEN 1 ELSE 0]
    /\ storeOp' = [op |-> "migrate", before |-> schema]
    /\ UNCHANGED <<now, limVars, pc, est, histVars, mtxVars, log, pipeVars, fetchVars,
                   pureVars, lastSet, lastUpsert>>

\* one call of upsertArticles(db, items)
UpsertArticlesCall ==
    /\ schema = MigratedSchema
    /\ \E items \in StoreItemLists :
         /\ articles' = UpsertArticles(articles, items)
         /\ lastUpsert' = NoteUpserts(lastUpsert, items)
         /\ storeOp' = [op |-> "upsert", items |-> items]
    /\ UNCHANGED <<now, limVars, pc, est, histVars, mtxVars, log, ttlDays, query_cache,
                   call, lastDone, fetchVars, pureVars, lastSet, schema, applied>>

\* saveFulltext: UPDATE articles SET fulltext = ? WHERE id = ?
SaveFulltext ==
    /\ schema = MigratedSchema
    /\ \E id \in StoreIds :
         /\ articles' = {IF r.id = id THEN [r EXCEPT !.fulltext = Str("text")] ELSE r :
                           r \in articles}
         /\ storeOp' = [op |-> "saveFulltext", id |-> id]
    /\ UNCHANGED <<now, limVars, pc, est, histVars, mtxVars, log, ttlDays, query_cache,
                   call, lastDone, fetchVars, pureVars, lastSet, lastUpsert, schema, applied>>

\* downloadPdf: UPDATE articles SET pdf_path = ?, download_status =
\* 'downloaded', downloaded_at = CURRENT_TIMESTAMP WHERE id = ?
MarkDownloaded ==
    /\ schema = MigratedSchema
    /\ \E id \in StoreIds :
         /\ articles' = {IF r.id = id
                           THEN [r EXCEPT !.pdf_path = Str("/pdf/" \o id),
                                          !.download_status = "downloaded",
                                          !.downloaded_at = Num(now)]
                           ELSE r : r \in articles}
         /\ storeOp' = [op |-> "markDownloaded", id |-> id]
    /\ UNCHANGED <<now, limVars, pc, est, histVars, mtxVars, log, ttlDays, query_cache,
                   call, lastDone, fetchVars, pureVars, lastSet, lastUpsert, schema, applied>>

\* the wall clock advances between storage calls
StoreTick ==
    /\ ClockAdvances(MaxStoreTime)
    /\ storeOp' = [op |-> "tick"]
    /\ UNCHANGED <<limVars, pc, est, histVars, mtxVars, log, pipeVars, fetchVars,
                   pureVars, lastSet, lastUpsert, schema, applied>>

InitArticles ==
    /\ InitIdle
    /\ cfg = [limit |-> 1, windowMs |-> 2, maxQueueDelayMs |-> 1]
    /\ ttlDays = DefaultTtl
    /\ args = <<>>
    /\ results = <<>>
    /\ schema \in {FreshSchema, LegacySchema}
    /\ applied = AppliedIn(schema)

NextArticles ==
    \/ Migrate
    \/ UpsertArticlesCall
    \/ SaveFulltext
    \/ MarkDownloaded
    \/ StoreTick

SpecArticles == InitArticles /\ [][NextArticles]_vars

\* the columns of articles that upsertArticles does not assign on a conflict
FrameColumns == {"id", "created_at", "fulltext", "pdf_path", "download_status", "downloaded_at"}

ItemIds(items) == {items[i].id : i \in 1..Len(items)}

\* C21: a call of upsertArticles leaves every row it finds in the table: of a
\* row whose id it writes only title, authors, journal, pub_year, raw_json
\* and updated_at may change (created_at, fulltext, pdf_path,
\* download_status and downloaded_at keep their values), and a row whose id
\* is not among the items is unchanged.
C21_UpsertFrame ==
    [][storeOp'.op = "upsert" =>
         \A r \in articles :
            \E r2 \in articles' :
               /\ \A c \in FrameColumns : r2[c] = r[c]
               /\ (r.id \notin ItemIds(storeOp'.items) => r2 = r)]_vars

\* an upsert has just rewritten the downloaded, indexed row A, made earlier,
\* and left row B alone
C21_Witness ==
    /\ storeOp.op = "upsert"
    /\ ItemIds(storeOp.items) = {"A"}
    /\ \E r \in articles :
         /\ r.id = "A" /\ r.title = "t2"
         /\ r.download_status = "downloaded" /\ r.fulltext # Null
         /\ r.created_at < r.updated_at /\ r.updated_at = now
    /\ \E r \in articles : r.id = "B" /\ r.updated_at < now

Aborted(i) == i \in 1..Len(outcomes) /\ outcomes[i].kind = "abort"
AttemptEnds == Len(outcomes') = Len(outcomes) + 1

\* C22 as stated: an attempt that is a retry (any attempt after the first)
\* and is cancelled by its deadline is the last attempt of the call: no
\* backoff wait and no further attempt follow it.
C22_CancelledRetryEndsCall ==
    \A i \in 2..Len(outcomes) :
        Aborted(i) => (i = Len(outcomes) /\ fetchPc = "thrown")

\* C22, amended: every attempt has its own deadline of timeoutMs, counted
\* from the start of that attempt, and is aborted only when it is due; an
\* aborted attempt that is not the last allowed is followed by a backoff wait
\* and a further attempt, and the abort of the last allowed attempt ends the
\* call with the AbortError.
C22_AbortedAttemptIsRetried ==
    /\ [][(AttemptEnds /\ outcomes'[Len(outcomes')].kind = "abort") =>
            (timerDelay = opts.timeoutMs /\ elapsed >= opts.timeoutMs)]_vars
    /\ [](\A i \in 1..Len(outcomes) :
            Aborted(i) =>
               IF i - 1 < opts.maxRetries
                 THEN /\ i = Len(outcomes) => fetchPc \in {"backoff", "in_flight"}
                      /\ fetchPc = "in_flight" => Len(waits) >= i
                 ELSE /\ i = Len(outcomes) /\ fetchPc = "thrown"
                      /\ settled = [kind |-> "error", error |-> ErrorOf(outcomes[i])])

\* a retry was aborted at its deadline, and the attempt after it succeeded
C22_Witness ==
    /\ fetchPc = "returned" /\ Len(outcomes) = 3 /\ opts.timeoutMs = 2
    /\ outcomes[1].kind = "http" /\ outcomes[1].status = 500
    /\ Aborted(2) /\ outcomes[3].kind = "ok"

\* ------------------------------------------------ the query cache, alone

\* The cache keys and the records setCachedQuery is called with.
StoreKeys == {MakeCacheKey(r) : r \in Requests}
CachePayloads ==
    { [ tool |-> "dbpia_search", params_json |-> <<[key |-> "q", value |-> "A"]>>,
        result_json |-> JsonStringify([kind |-> "result", items |-> <<>>, total |-> "1"]) ],
      [ tool |-> "dbpia_search", params_json |-> <<[key |-> "q", value |-> "A"]>>,
        result_json |-> JsonStringify([kind |-> "result", items |-> <<>>,
                                       total |-> "undefined"]) ],
      [ tool |-> "dbpia_detail", params_json |-> <<[key |-> "id", value |-> "A"]>>,
        result_json |-> JsonStringify([kind |-> "result", items |-> <<>>, total |-> "1"]) ] }
StoreTtls == {t \in TtlChoices : t.kind = "int"}

\* setCachedQuery(db, {..., expires_at: computeExpiresAt(ttlDays)}), as
\* runQuery and the tests call it
SetCachedQueryCall ==
    /\ \E key \in StoreKeys, payload \in CachePayloads, ttl \in StoreTtls :
         LET record == [ cache_key |-> key, tool |-> payload.tool,
                         params_json |-> payload.params_json,
                         result_json |-> payload.result_json,
                         expires_at |-> ComputeExpiresAt(ttl).at ]
         IN  /\ query_cache' = SetCachedQuery(query_cache, record)
             /\ lastSet' = NoteSet(lastSet, record)
             /\ storeOp' = [op |-> "set", record |-> record, ttl |-> ttl,
                             replaced |-> {r \in query_cache : r.cache_key = key}]
    /\ UNCHANGED <<now, limVars, pc, est, histVars, mtxVars, log, ttlDays, articles,
                   call, lastDone, fetchVars, pureVars, lastUpsert, schema, applied>>

\* getCachedQuery(db, cacheKey)
GetCachedQueryCall ==
    /\ \E key \in StoreKeys :
         /\ storeOp' = [op |-> "get", key |-> key, result |-> GetCachedQuery(key)]
         /\ query_cache' = RowsAfterSelect(query_cache, key)
    /\ UNCHANGED <<now, limVars, pc, est, histVars, mtxVars, log, ttlDays, articles,
                   call, lastDone, fetchVars, pureVars, lastSet, lastUpsert, schema, applied>>

InitCache == InitPure /\ args = <<>> /\ results = <<>>

NextCache ==
    \/ SetCachedQueryCall
    \/ GetCachedQueryCall
    \/ StoreTick

SpecCache == InitCache /\ [][NextCache]_vars

Expired(r) == r.expires_at <= now

\* C23: a call of getCachedQuery leaves the query_cache table as it was:
\* every record, expired or valid, is still stored with all its fields.
C23_GetLeavesTable ==
    [][storeOp'.op = "get" => query_cache' = query_cache]_vars

\* a get has just reported a miss for a key whose expired record is still
\* stored, next to a valid record of the other key
C23_Witness ==
    /\ storeOp.op = "get" /\ storeOp.result = {}
    /\ \E r \in query_cache : r.cache_key = storeOp.key /\ Expired(r)
    /\ \E r \in query_cache : r.cache_key # storeOp.key /\ ~Expired(r)

SetFields == {"cache_key", "tool", "params_json", "result_json", "expires_at"}
SameRecord(r, s) == \A f \in SetFields : r[f] = s[f]

\* C24: the table holds at most one record per cache_key; for every key that
\* was set, the stored record has the tool, params_json, result_json and
\* expires_at of the most recent set of that key; the expiry just written is
\* the write time plus ttlDays; and a get returns that record while the
\* clock is before its expires_at, and nothing otherwise.
C24_SetOverwritesWholeRow ==
    /\ \A r1, r2 \in query_cache : r1.cache_key = r2.cache_key => r1 = r2
    /\ \A s \in lastSet :
         \E r \in query_cache : SameRecord(r, s) /\ r.fetched_at = s.written_at
    /\ \A r \in query_cache : \E s \in lastSet : s.cache_key = r.cache_key
    /\ storeOp.op = "set" =>
         \E r \in query_cache :
            /\ SameRecord(r, storeOp.record)
            /\ r.expires_at = now + storeOp.ttl.days * DayTicks
    /\ storeOp.op = "get" =>
         storeOp.result =
            {r \in query_cache :
               \E s \in lastSet : /\ s.cache_key = storeOp.key
                                  /\ SameRecord(r, s)
                                  /\ now < s.expires_at}

\* a set has just replaced a record of the same key that differed in tool,
\* params, result and expiry, and was written earlier
C24_Witness ==
    /\ storeOp.op = "set"
    /\ \E old \in storeOp.replaced, r \in query_cache :
         /\ SameRecord(r, storeOp.record) /\ r.fetched_at = now
         /\ old.fetched_at < now
         /\ \A f \in SetFields \ {"cache_key"} : old[f] # r[f]

ArticleFields == {"title", "authors", "journal", "pub_year", "raw_json"}
HoldsArticle(r, a) ==
    r.id = a.id /\ \A f \in ArticleFields : r[f] = BoundValues(a)[f]

\* C25: the articles table holds at most one row per id; every id that was
\* upserted has a row, whose title, authors, journal, pub_year and raw_json
\* are the values bound for the most recent upsert of that id; and there is
\* no other row.
C25_LastUpsertWins ==
    /\ \A r1, r2 \in articles : r1.id = r2.id => r1 = r2
    /\ \A a \in lastUpsert : \E r \in articles : HoldsArticle(r, a)
    /\ \A r \in articles : \E a \in lastUpsert : a.id = r.id

\* one transaction upserted id A twice, over a row of A made by an earlier
\* call, and the row holds the second article
C25_Witness ==
    /\ storeOp.op = "upsert" /\ Len(storeOp.items) = 2
    /\ storeOp.items[1].id = "A" /\ storeOp.items[2].id = "A"
    /\ storeOp.items[1] # storeOp.items[2]
    /\ \E r \in articles :
         /\ HoldsArticle(r, storeOp.items[2]) /\ ~HoldsArticle(r, storeOp.items[1])
         /\ r.created_at < r.updated_at

\* ------------------------------------- runQuery's outbound parameters, alone

\* obj[k] = v on an object given as its properties in insertion order
RECURSIVE AssignProp(_, _, _)
AssignProp(obj, k, v) ==
    IF obj = <<>> THEN <<[key |-> k, value |-> v]>>
    ELSE IF Head(obj).key = k THEN <<[key |-> k, value |-> v]>> \o Tail(obj)
    ELSE <<Head(obj)>> \o AssignProp(Tail(obj), k, v)

ApiKey_DefaultFirst(apiKeyOverride, envKey) ==
    IF Truthy(envKey) THEN envKey
    ELSE IF Truthy(apiKeyOverride) THEN apiKeyOverride
    ELSE Undefined
\* runQuery, lines 37-41: the value assigned to queryParams.key, Undefined
\* when neither branch is taken
ApiKey(apiKeyOverride, envKey) ==
    IF Truthy(apiKeyOverride) THEN apiKeyOverride
    ELSE IF Truthy(envKey) THEN envKey
    ELSE Undefined

\* runQuery, lines 33-41: queryParams
QueryParams(o) ==
    LET spread == [i \in 1..Len(o.params) |->
                     [key |-> o.params[i].key, value |-> Str(o.params[i].value)]]
        withTarget == AssignProp(spread, "target", Str(o.target))
        withPage == IF Truthy(o.page) THEN AssignProp(withTarget, "page", o.page)
                    ELSE withTarget
        withCount == IF Truthy(o.pagecount)
                       THEN AssignProp(withPage, "pagecount", o.pagecount)
                       ELSE withPage
        key == ApiKey(o.apiKeyOverride, o.envKey)
    IN  IF key # Undefined THEN AssignProp(withCount, "key", key) ELSE withCount

\* buildDbpiaUrl: the search parameters appended to the URL, in order
BuildDbpiaUrl(params) ==
    LET defined == SelectSeq(params, LAMBDA prop : prop.value # Undefined)
    IN  [i \in 1..Len(defined) |->
           [key |-> defined[i].key, value |-> ToJsString(defined[i].value)]]

\* The options of the runQuery calls the tool handlers make, with
\* process.env.DBPIA_API_KEY (Undefined: not set) as envKey.
QueryParamsArgs ==
    [ target : {"se", "detail"},
      params : { <<[key |-> "searchall", value |-> "a"]>>, <<[key |-> "id", value |-> "N1"]>> },
      page : {Undefined, Num(2)},
      pagecount : {Undefined},
      apiKeyOverride : {Undefined, Str(""), Str("BIZ")},
      envKey : {Undefined, Str(""), Str("DEF")} ]

\* one cache-miss call up to fetchDbpiaXml building the URL, for the i-th
\* options
AssembleParams(i) ==
    /\ i \in 1..Len(args)
    /\ results[i] = Undefined
    /\ results' = [results EXCEPT
                     ![i] = [type |-> "url", value |-> BuildDbpiaUrl(QueryParams(args[i]))]]
    /\ UNCHANGED <<args, storeVars, now, limVars, pc, est, histVars, mtxVars, log, pipeVars, fetchVars>>

InitQueryParams ==
    /\ InitPure
    /\ args \in QueryParamsArgs \X QueryParamsArgs
    /\ results = <<Undefined, Undefined>>

NextQueryParams == \E i \in 1..2 : AssembleParams(i)

SpecQueryParams == InitQueryParams /\ [][NextQueryParams]_vars

\* the values sent under the name key, in order
SentKeys(url) ==
    LET props == SelectSeq(url, LAMBDA prop : prop.key = "key")
    IN  [i \in 1..Len(props) |-> props[i].value]
\* a credential is given or configured when it is a non-empty string
Given(v) == v # Undefined /\ v.value # ""

\* C26: the key sent by a cache-miss runQuery is the apiKeyOverride when one
\* is given (a non-empty string), whatever the default credential is;
\* otherwise the default credential DBPIA_API_KEY when one is configured;
\* otherwise no key parameter is sent.  The key is sent once.
C26_OverrideTakesPrecedence ==
    \A i \in 1..Len(args) :
        Called(i) =>
           SentKeys(results[i].value) =
              IF Given(args[i].apiKeyOverride) THEN <<args[i].apiKeyOverride.value>>
              ELSE IF Given(args[i].envKey) THEN <<args[i].envKey.value>>
              ELSE <<>>

\* one call with both credentials has sent the override, another with only
\* the default credential has sent that
C26_Witness ==
    /\ Called(1) /\ Called(2)
    /\ Given(args[1].apiKeyOverride) /\ Given(args[1].envKey)
    /\ SentKeys(results[1].value) = <<"BIZ">>
    /\ ~Given(args[2].apiKeyOverride) /\ SentKeys(results[2].value) = <<"DEF">>

\* a migrate call has been made on this database
Migrated == schema \notin {FreshSchema, LegacySchema}
HighestMigration == CHOOSE m \in MigrationIds : \A k \in MigrationIds : k <= m

HoldsMutex(p) == pc[p] \in {"mtx_granted", "body", "settled_ok", "settled_err"}
Rejected(p) == pc[p] = "settled_err"
Releases(kind, p) ==
    Cardinality({i \in 1..Len(log) : log[i] = Ev(kind, p)})

\* C28: a caller whose task rejected releases the lock in the same step in
\* which the error reaches it: the lock goes to the first queued waiter, or
\* is free when none waits, and that caller has released exactly once.  The
\* mutex is locked only while one caller holds it, and a caller waits in the
\* queue only while it is locked.
C28_ThrowingTaskReleases ==
    /\ [](/\ locked => Cardinality({p \in Procs : HoldsMutex(p)}) = 1
          /\ ~locked => (mqueue = <<>> /\ \A p \in Procs : ~HoldsMutex(p))
          /\ \A p \in Procs :
               /\ pc[p] = "mtx_wait" <=> (\E i \in 1..Len(mqueue) : mqueue[i] = p)
               /\ pc[p] \in {"threw", "done"} => Releases("release", p) = 1
               /\ HoldsMutex(p) => Releases("release", p) = 0)
    /\ [][\A p \in Procs :
            (Rejected(p) /\ pc'[p] # pc[p]) =>
               /\ pc'[p] \in {"threw", "failed"}
               /\ IF mqueue = <<>>
                    THEN ~locked' /\ mqueue' = <<>>
                    ELSE /\ locked' /\ mqueue' = Tail(mqueue)
                         /\ pc'[Head(mqueue)] = "mtx_granted"]_vars

\* p's task rejected while q and r waited; p's release handed the lock to q,
\* whose task has run and whose release handed it to r
C28_Witness ==
    \E p, q, r \in Procs :
        /\ pc[p] = "threw" /\ pc[q] = "done" /\ pc[r] = "body"
        /\ \E i \in 1..Len(log) :
             /\ log[i] = Ev("release", p)
             /\ i + 1 <= Len(log) /\ log[i + 1] = Ev("handoff", q)
             /\ \E j \in (i + 2)..Len(log) :
                  /\ log[j] = Ev("enter", q)
                  /\ \E k \in 1..(i - 1) : log[k] = Ev("call", r)

\* ------------------------------------------- the limiter, with its timers

\* time passes while the drain timer is pending, up to its due time
TimerWait ==
    /\ timeout # NoTimer
    /\ \E d \in 1..MaxStep :
         /\ now + d <= timeout
         /\ now' = now + d
    /\ lastDone' = 0
    /\ UNCHANGED <<limVars, pc, est, histVars, mtxVars, log, ttlDays, fetchVars, pureVars,
                   storeVars, dbVars, call>>

\* acquire() and the timers; what a caller does once admitted has no part
NextLimiterTimed ==
    \/ \E p \in Procs : Schedule(p)
    \/ TimerFire
    \/ Tick
    \/ TimerWait

\* The clock reaches the due time of a pending timer, and a due timer fires.
FairSpecLimiter ==
    /\ InitLimiter
    /\ [][NextLimiterTimed]_vars
    /\ WF_vars(TimerWait)
    /\ WF_vars(TimerFire)

\* C29: exactly when the queue is non-empty a drain timer is pending, and
\* every caller that is in the queue is eventually admitted.
C29_QueuedCallerIsAdmitted ==
    /\ [](queue # <<>> <=> timeout # NoTimer)
    /\ \A p \in Procs : InQueue(p) ~> WasAdmitted(p)

\* two callers that had to wait were admitted out of the queue by two
\* firings of the drain timer, while a third is still queued
C29_Witness ==
    \E i, j \in 1..Len(admits) :
        /\ est[admits[i].p] > 0 /\ est[admits[j].p] > 0
        /\ admits[i].at < admits[j].at
        /\ queue # <<>> /\ timeout > now

\* ------------------------------------------ the mutex, with tasks settling

\* Promise continuations run: a granted caller's task starts and a settled
\* task's caller releases; every task that has started settles.
FairSpecMutex ==
    /\ SpecMutex
    /\ \A p \in Procs : WF_vars(StartBody(p))
    /\ \A p \in Procs : WF_vars(FinishBody(p))
    /\ \A p \in Procs : WF_vars(Release(p))

\* C30: every caller of runExclusive eventually has its task started, and
\* eventually gets its task's result or error.
C30_NoWaiterStarves ==
    \A p \in Procs :
        /\ Logged("call", p) ~> Logged("enter", p)
        /\ Logged("call", p) ~> (pc[p] \in {"done", "threw"})

\* all callers have their result; three of them had to wait and got the lock
\* by hand-off
C30_Witness ==
    /\ \A p \in Procs : pc[p] \in {"done", "threw"}
    /\ Len(LogOf({"handoff"})) = NProcs - 1

\* --------------------------------- the limiter, with timers firing on time

\* the wall clock advances, but not past the due time of a pending drain
\* timer: the timer's callback runs at the time it was set for
OnTimeTick ==
    /\ \E d \in 1..MaxStep :
         /\ now + d <= MaxTime
         /\ timeout # NoTimer => now + d <= timeout
         /\ now' = now + d
    /\ lastDone' = 0
    /\ UNCHANGED <<limVars, pc, est, histVars, mtxVars, log, ttlDays, fetchVars, pureVars,
                   storeVars, dbVars, call>>

NextLimiterOnTime ==
    \/ \E p \in Procs : Schedule(p)
    \/ TimerFire
    \/ OnTimeTick

\* the limiters above, and one whose maxQueueDelayMs is far below its window,
\* as dbpiaLimiter's is (10 s against 60 s)
OnTimeConfigs ==
    LimiterConfigs \cup {[limit |-> 2, windowMs |-> 3, maxQueueDelayMs |-> 1]}
InitLimiterOnTime == InitWith(OnTimeConfigs) /\ ttlDays = DefaultTtl

SpecLimiterOnTime == InitLimiterOnTime /\ [][NextLimiterOnTime]_vars

\* how long the caller at place i of the queue has waited so far
WaitedSoFar(i) == now - queue[i].ts

\* C31: a caller accepted into the queue is admitted no later than
\* maxQueueDelayMs after its arrival, and no later than the estimate acquire()
\* computed for it: as long as it is queued it has waited at most that long.
C31_EstimateBoundsWait ==
    \A i \in 1..Len(queue) :
        /\ WaitedSoFar(i) <= cfg.maxQueueDelayMs
        /\ WaitedSoFar(i) <= est[queue[i].p]

\* C32: the step in which acquire() rejects a caller leaves the queue, the
\* pending drain timer, the admissions and every other caller as they were,
\* and changes the admitted timestamps only by dropping those that have left
\* the window; no timestamp is recorded for the rejected call.
C32_RejectionLeavesLimiter ==
    [][\A p \in Procs :
         (pc[p] = "idle" /\ pc'[p] = "rejected") =>
            /\ queue' = queue /\ timeout' = timeout /\ admits' = admits
            /\ timestamps' = Cleanup(timestamps)
            /\ \A q \in Procs \ {p} : pc'[q] = pc[q]]_vars

\* a call was rejected while an earlier caller was queued; that caller and a
\* caller that arrived after the rejection have been admitted
C32_Witness ==
    \E i, j, k \in 1..Len(arrivals) :
        /\ i < j /\ j < k
        /\ pc[arrivals[j]] = "rejected"
        /\ est[arrivals[i]] > 0 /\ WasAdmitted(arrivals[i])
        /\ WasAdmitted(arrivals[k])
        /\ \E a \in 1..Len(admits) : admits[a].p = arrivals[i] /\ admits[a].at > 1


\* ---------------------------------------------------------------- C33

AdmissionsOf(p) == {i \in 1..Len(admits) : admits[i].p = p}
FetchStarted(p) == call[p].fetches > 0
\* the calls whose fetchDbpiaXml invocation started in the window ending at t
FetchStartsIn(t) ==
    {p \in QProcs : FetchStarted(p) /\ call[p].fetchAt > t - cfg.windowMs
                                    /\ call[p].fetchAt <= t}

\* C33: a call that missed the cache is admitted by the limiter once, before
\* its first attempt: a call with an attempt has exactly one admission, made
\* at the time its one fetchDbpiaXml invocation started, and a call without
\* an admission has no attempt; a further attempt of the same invocation
\* leaves the limiter's timestamps, queue and admissions as they are; and in
\* no window of windowMs have more than limit invocations started
C33_OneSlotPerCall ==
    /\ [](\A p \in QProcs :
            /\ Cardinality(AdmissionsOf(p)) <= 1
            /\ call[p].fetches <= 1
            /\ call[p].attempts <= DefaultFetchOptions.maxRetries + 1
            /\ (call[p].attempts > 0) = FetchStarted(p)
            /\ FetchStarted(p) =>
                 /\ ~call[p].hit
                 /\ \E i \in AdmissionsOf(p) : admits[i].at = call[p].fetchAt
            /\ (pc[p] \in {"lim_queued", "rejected"} \/ call[p].hit) =>
                 AdmissionsOf(p) = {} /\ ~FetchStarted(p))
    /\ [](\A t \in 1..MaxQueryTime : Cardinality(FetchStartsIn(t)) <= cfg.limit)
    /\ [][\A p \in QProcs :
            (call[p].attempts > 0 /\ call'[p].attempts > call[p].attempts) =>
                /\ timestamps' = timestamps
                /\ queue' = queue
                /\ timeout' = timeout
                /\ admits' = admits]_vars

\* both calls missed and were admitted, the second after waiting in the
\* limiter's queue, and the first made all three attempts under its one slot
C33_Witness ==
    /\ \A p \in QProcs : Cardinality(AdmissionsOf(p)) = 1 /\ FetchStarted(p)
    /\ call[1].attempts = DefaultFetchOptions.maxRetries + 1
    /\ call[2].attempts = 2
    /\ est[2] > 0
    /\ call[2].fetchAt >= call[1].fetchAt + cfg.windowMs
    /\ pc[1] = "done"


\* ---------------------------------------------------------------- C34

\* what the call p has done under the write mutex, in the order it did it
BodyStepsOf(p) ==
    LET own == SelectSeq(log, LAMBDA e : e.p = p /\ e.kind # "handoff")
    IN  [i \in 1..Len(own) |-> own[i].kind]
MissSteps == <<"call", "enter", "articles", "cache", "exit", "release">>
Normalized(p) == call[p].resp.kind = "ok" /\ call[p].result.kind = "result"
Missed(p) == pc[p] # "idle" /\ ~call[p].hit

\* the steps of a call that missed, from one position to the next
MissOrder ==
    [ idle |-> {"lim_admitted", "lim_queued", "rejected"},
      lim_queued |-> {"lim_admitted"},
      lim_admitted |-> {"fetching"},
      fetching |-> {"mtx_granted", "mtx_wait", "failed"},
      mtx_wait |-> {"mtx_granted"},
      mtx_granted |-> {"settled_ok", "settled_err"},
      settled_ok |-> {"done"},
      settled_err |-> {"failed"},
      rejected |-> {},
      failed |-> {},
      done |-> {} ]

\* C34: in a call that missed the cache the steps follow each other in the
\* order admission, fetch, parse and normalize, mutex acquisition, article
\* upsert, cache-record upsert, mutex release, return: the fetch starts only
\* in an admitted call, the mutex is requested only with a normalized result,
\* the writes happen only in the holder of the mutex, articles before the
\* cache record, the return follows the release; a call that has returned
\* its result has written its cache record, and nothing is written by a call
\* whose normalization has not succeeded
C34_MissPathOrder ==
    /\ [](\A p \in QProcs : Missed(p) =>
            /\ pc[p] \in {"fetching", "failed", "mtx_wait", "mtx_granted",
                          "settled_ok", "settled_err", "done"}
                 => AdmissionsOf(p) # {}
            /\ pc[p] \in {"lim_queued", "lim_admitted", "rejected"}
                 => ~FetchStarted(p)
            /\ pc[p] \in {"lim_queued", "lim_admitted", "rejected", "fetching"}
                 => call[p].result.kind = "none"
            /\ pc[p] \in {"mtx_wait", "mtx_granted", "settled_ok", "settled_err", "done"}
                 => Normalized(p) /\ FetchStarted(p)
            /\ pc[p] \in {"lim_queued", "lim_admitted", "rejected", "fetching"}
                 => BodyStepsOf(p) = <<>>
            /\ pc[p] \in {"mtx_wait", "mtx_granted"} => BodyStepsOf(p) = <<"call">>
            /\ BodyStepsOf(p) # <<>> => Normalized(p)
            /\ pc[p] = "settled_ok" => BodyStepsOf(p) = SubSeq(MissSteps, 1, 5)
            /\ pc[p] = "done" => BodyStepsOf(p) = MissSteps
            /\ pc[p] = "settled_err"
                 => BodyStepsOf(p) \in {<<"call", "enter", "exit">>,
                                        <<"call", "enter", "articles", "exit">>}
            /\ pc[p] \in {"settled_ok", "settled_err"} => locked)
    /\ [][\A p \in QProcs :
            /\ (pc'[p] # pc[p] /\ ~call'[p].hit) => pc'[p] \in MissOrder[pc[p]]
            /\ Len(BodyStepsOf(p)') > Len(BodyStepsOf(p)) =>
                 /\ pc[p] \in {"fetching", "mtx_granted", "settled_ok", "settled_err"}
                 /\ pc[p] # "fetching" => locked
                 /\ \A q \in QProcs \ {p} : BodyStepsOf(q)' = BodyStepsOf(q)
            /\ (pc[p] = "settled_ok" /\ pc'[p] = "done") =>
                 \/ mqueue = <<>> /\ ~locked'
                 \/ \E q \in QProcs \ {p} :
                      pc[q] = "mtx_wait" /\ pc'[q] = "mtx_granted"]_vars
    /\ [][<<articles, query_cache>>' # <<articles, query_cache>> =>
            \E p \in QProcs : /\ pc[p] = "mtx_granted" /\ Normalized(p)
                              /\ pc'[p] \in {"settled_ok", "settled_err"}]_vars

\* both calls missed, were admitted one window apart, and have returned;
\* the first was still fetching when the second was admitted, and it wrote
\* after the second
C34_Witness ==
    /\ \A p \in QProcs : pc[p] = "done" /\ ~call[p].hit /\ BodyStepsOf(p) = MissSteps
    /\ est[2] > 0
    /\ ProcsOf(LogOf({"cache"})) = <<2, 1>>


\* ---------------------------------------------------------------- C35

\* the step in which p's runQuery call returns the cached row
HitStep(p) == pc[p] = "idle" /\ pc'[p] # "idle" /\ call'[p].hit

\* C35: a runQuery call that hits the cache returns the parsed row and leaves
\* everything else alone: the limiter's timestamps, queue, timer, arrivals
\* and admissions, the mutex and its waiters, the articles table and the
\* query_cache table with the row's expires_at are unchanged, no fetch is
\* started and no other call moves; and a call without refresh that finds a
\* row that has not expired takes this path
C35_HitTouchesNothing ==
    [][\A p \in QProcs :
         /\ HitStep(p) =>
              /\ <<timestamps, queue, timeout, arrivals, admits, est>>'
                   = <<timestamps, queue, timeout, arrivals, admits, est>>
              /\ <<locked, mqueue, log>>' = <<locked, mqueue, log>>
              /\ articles' = articles
              /\ query_cache' = query_cache
              /\ pc' = [pc EXCEPT ![p] = "done"]
              /\ ~FetchStarted(p)'
              /\ ~call'[p].refresh
              /\ \E r \in query_cache :
                   /\ r.cache_key = call'[p].cacheKey
                   /\ call'[p].result = JsonParse(r.result_json)
         /\ ( /\ pc[p] = "idle" /\ pc'[p] # "idle" /\ ~call'[p].refresh
              /\ \E r \in query_cache :
                   r.cache_key = call'[p].cacheKey /\ r.expires_at > now )
            => call'[p].hit]_vars

\* the second call has just returned the row the first one wrote, while the
\* first call's admission is still in the limiter's window
C35_Witness ==
    /\ pc[1] = "done" /\ ~call[1].hit
    /\ pc[2] = "done" /\ call[2].hit /\ ~call[2].hitStale
    /\ lastDone = 2
    /\ timestamps # <<>> /\ Len(admits) = 1 /\ arrivals = <<1>>
    /\ query_cache # {}


\* ---------------------------------------------------------------- C36

\* two calls with the same cache key that both missed the cache and are over
SameKeyMisses(p, q) ==
    /\ p # q /\ call[p].cacheKey = call[q].cacheKey
    /\ Missed(p) /\ Missed(q) /\ Ended(p) /\ Ended(q)
OwnResult(p) ==
    call[p].result = NormalizeDbpiaResponse(ParseDbpiaXml(call[p].resp.body))
\* the one row of p's key is the serialized result of the last writer
RowIsLastWriters(p) ==
    /\ LastCacheWriter # 0
    /\ \E r \in query_cache :
         RowsOf(p) = {r} /\ r.result_json = JsonStringify(call[LastCacheWriter].result)

Holders == {p \in Procs : HoldsMutex(p)}
Settled(p) == pc[p] \in {"done", "threw"}

\* C37: in every state of the mutex a waiter in the queue implies locked,
\* the lock is held by at most one caller and is locked exactly when one
\* holds it, the waiters are callers that were not granted the lock, a
\* holder's release callback has not been invoked yet and a settled
\* caller's was invoked exactly once; and locked becomes false only in a
\* release that finds the queue empty
C37_LockDiscipline ==
    /\ [](/\ mqueue # <<>> => locked
          /\ Cardinality(Holders) <= 1
          /\ locked = (Holders # {})
          /\ \A i \in 1..Len(mqueue) :
               /\ pc[mqueue[i]] = "mtx_wait"
               /\ \A j \in 1..Len(mqueue) : mqueue[i] = mqueue[j] => i = j
          /\ \A p \in Procs :
               /\ Releases("release", p) = IF Settled(p) THEN 1 ELSE 0
               /\ Releases("handoff", p) <= 1)
    /\ [][(locked /\ ~locked') =>
            /\ mqueue = <<>>
            /\ \E p \in Procs :
                 /\ pc[p] \in {"settled_ok", "settled_err"}
                 /\ Settled(p)'
                 /\ log' = Append(log, Ev("release", p))]_vars
    /\ [][\A p \in Procs :
            Releases("release", p)' > Releases("release", p) =>
                HoldsMutex(p) /\ ~HoldsMutex(p)']_vars

\* the lock has been handed over once and freed once with an empty queue,
\* and is now held again with two callers waiting
C37_Witness ==
    /\ locked /\ Len(mqueue) = 2
    /\ Cardinality({p \in Procs : Settled(p)}) = 1
    /\ Cardinality(Holders) = 1
    /\ \E p \in Procs : Settled(p) /\ Releases("handoff", p) = 0
    /\ \E i \in 1..Len(log) :
         /\ log[i].kind = "release"
         /\ (i = Len(log) \/ log[i + 1].kind # "handoff")


\* ---------------------------------------------------------------- C38

\* the credentials of two runQuery calls, apiKeyOverride and
\* process.env.DBPIA_API_KEY at the time of the call: the same for both, the
\* business key for one of them (handleDetail), another default key
CredentialPairs ==
    LET with(o, d) == [apiKeyOverride |-> o, envKey |-> d] IN
    { <<with(Undefined, Str("DEF")), with(Undefined, Str("DEF"))>>,
      <<with(Str("BIZ"), Str("DEF")), with(Undefined, Str("DEF"))>>,
      <<with(Undefined, Str("DEF")), with(Str("BIZ"), Str("DEF"))>>,
      <<with(Undefined, Str("DEF")), with(Undefined, Str("DEF2"))>> }

InitCredentials ==
    /\ InitIdle
    /\ schema = MigratedSchema
    /\ applied = AppliedIn(schema)
    /\ cfg \in PipelineConfigs
    /\ ttlDays = DefaultTtl
    /\ args \in CredentialPairs
    /\ results = <<>>

SpecCredentials == InitCredentials /\ [][Next]_vars

\* runQuery, lines 37-41: the key p's call sends when it fetches
SentKey(p) == ApiKey(args[p].apiKeyOverride, args[p].envKey)

\* C38: the cache key of a call is made of tool, target, params, page and
\* pagecount alone: calls with the same of these have the same key whatever
\* their apiKeyOverride, default key and refresh flag; a call without
\* refresh that finds an unexpired row under that key returns it, whatever
\* key it would have sent; and what a hit returns is the stored result of
\* the other call's fetch, whichever key that call sent
C38_KeyIgnoresCredential ==
    /\ [](\A p, q \in QProcs :
            /\ (Started(p) /\ Started(q) /\ call[p].req = call[q].req)
                 => call[p].cacheKey = call[q].cacheKey
            /\ (p # q /\ call[q].hit) =>
                 /\ Logged("cache", p) /\ ~call[p].hit
                 /\ call[p].cacheKey = call[q].cacheKey
                 /\ call[q].result = JsonParse(JsonStringify(call[p].result))
                 /\ ~FetchStarted(q))
    /\ [][\A q \in QProcs :
            ( /\ ~Started(q) /\ Started(q)' /\ ~call'[q].refresh
              /\ \E p \in QProcs \ {q}, r \in query_cache :
                   /\ Logged("cache", p) /\ call[p].req = call'[q].req
                   /\ r.cache_key = call[p].cacheKey /\ r.expires_at > now )
            => call'[q].hit]_vars

\* the first call fetched with the business key and stored its result; the
\* second call, which would have sent the default key, got that result from
\* the cache
C38_Witness ==
    /\ SentKey(1) = Str("BIZ") /\ SentKey(2) = Str("DEF")
    /\ pc[1] = "done" /\ ~call[1].hit /\ call[1].result.items # <<>>
    /\ pc[2] = "done" /\ call[2].hit
    /\ call[2].result.items = call[1].result.items


\* ---------------------------------------------------------------- C39

\* the fetch of p's call succeeded with an empty body
EmptyBody(p) == FetchSucceeded(p) /\ call[p].resp.body.blank
\* normalizeDbpiaResponse(null): no items, meta.total undefined
EmptyResult == [kind |-> "result", items |-> <<>>, total |-> "undefined"]
HoldsEmpty(r) == r.result_json = JsonStringify(EmptyResult)

\* C39: a call whose fetch succeeded with an empty body does not fail in
\* parsing or normalizing: its result is the result with zero items, it
\* fails only if its persistence step throws, and when it has returned, its
\* key has the one row written last, which for this call holds the empty
\* result and expires ttlDays after it was written; a call without refresh
\* that finds such a row unexpired returns the empty result without a fetch
C39_EmptyBodyIsCached ==
    /\ [](\A p \in QProcs : EmptyBody(p) =>
            /\ call[p].error # "ParseError"
            /\ call[p].result = EmptyResult
            /\ pc[p] \in {"mtx_wait", "mtx_granted", "settled_ok", "settled_err",
                          "done", "failed"}
            /\ pc[p] = "failed" => PersistThrew(p)
            /\ pc[p] \in {"settled_ok", "done"} =>
                 /\ Logged("cache", p)
                 /\ \E r \in query_cache : RowsOf(p) = {r}
                 /\ LastCacheWriter = p =>
                      \A r \in RowsOf(p) :
                          /\ HoldsEmpty(r)
                          /\ r.expires_at = r.fetched_at + ttlDays.days * DayTicks)
    /\ [][\A q \in QProcs :
            ( /\ ~Started(q) /\ Started(q)' /\ ~call'[q].refresh
              /\ \E r \in query_cache :
                   /\ r.cache_key = call'[q].cacheKey
                   /\ HoldsEmpty(r) /\ r.expires_at > now )
            => /\ call'[q].hit
               /\ call'[q].result = EmptyResult
               /\ ~FetchStarted(q)'
               /\ timestamps' = timestamps /\ admits' = admits]_vars

\* the first call fetched an empty body and stored the empty result for
\* seven days; after the clock advanced the second call got it from the
\* cache
C39_Witness ==
    /\ ttlDays = DefaultTtl
    /\ EmptyBody(1) /\ pc[1] = "done"
    /\ pc[2] = "done" /\ call[2].hit /\ call[2].result = EmptyResult
    /\ ~FetchStarted(2)
    /\ \E r \in RowsOf(1) : HoldsEmpty(r) /\ r.fetched_at < now
                                          /\ r.expires_at = r.fetched_at + 7 * DayTicks

====
